---- MODULE Spec2Model ----
(***************************************************************************)
(* Playback pipeline core of the player (ffplay) and the AVFifo ring it    *)
(* stores packets in.                                                      *)
(*                                                                         *)
(*   SpecPQ       one PacketQueue on top of its AVFifo: put, get (blocking *)
(*                and non-blocking), flush, start, abort.                  *)
(*   SpecPQOrder  a started PacketQueue run long enough for its ring to    *)
(*                wrap and to grow in every way av_fifo_grow2 can.         *)
(*   SpecPQWait   a PacketQueue with several threads blocked in             *)
(*                packet_queue_get when it is aborted (with fairness).     *)
(*   SpecPipe     one stream component: reader -> PacketQueue -> decoder   *)
(*                thread -> FrameQueue -> presenter / audio callback,      *)
(*                with seeks, pause and closing/reopening the component.   *)
(*   SpecRead     read_thread and the three packet queues it fills.        *)
(*   SpecReadLoop read_thread with the loop option and no seek by the user.*)
(*   SpecReadFull read_thread in front of full queues.                     *)
(*   SpecReadHuge read_thread in front of a ring at its growth limit.      *)
(***************************************************************************)
EXTENDS Integers, Sequences, FiniteSets, TLC

(***************************************************************************)
(* Bounds of the model                                                     *)
(***************************************************************************)
\* packets the reader offers to a queue in one run
MaxPuts == 3
\* packets offered in the run that takes the ring through wrap-around and growth
MaxPutsOrder == 9
\* highest serial a queue may reach (caps flush/start)
MaxSerial == 3
\* threads that call packet_queue_get on the one queue of SpecPQWait
NumGetters == 2
\* packets offered and calls of packet_queue_abort in SpecPQWait
MaxWaitPuts == 2
MaxAborts == 2
\* SpecRead: highest loop option, packets av_read_frame gives, seeks the
\* user asks for, times read_thread finds the input played to its end
MaxLoop == 2
MaxReads == 1
MaxUserSeeks == 1
MaxCompletions == 2
\* SpecReadHuge: packets av_read_frame gives
MaxHugeReads == 2
\* SpecReadFull: size in bytes of a big packet (8 MiB)
BigPacketSize == 8388608
\* st->time_base is 1/TimeBaseDenFast or 1/TimeBaseDenSlow
TimeBaseDenFast == 40
TimeBaseDenSlow == 60
\* packets the reader offers to the stream component
MaxPipePuts == 3
\* seeks served while the component plays
MaxSeeks == 1
\* times the component is closed and opened again
MaxReopens == 1
\* slots of a frame queue (the queues of the program have 3, 9 and 16)
FrameQueueCap == 2
\* packets the codec may hold before it has to output a frame
MaxCodecDelay == 1
\* frames the filter graph may hold before it has to output one
MaxFilterDelay == 1
\* SpecAudio: calls of sdl_audio_callback, frames the audio thread pushes,
\* flushes of the audio queue, calls of stream_toggle_pause, the longest
\* len SDL asks for, the most bytes a frame is resampled to, samples a second
MaxCallbacks == 2
MaxAudioFrames == 2
MaxAudioFlushes == 1
MaxAudioPauses == 2
MaxAudioLen == 1100
MaxAudioSize == 700
AudioSampleRate == 100
\* SpecClock: steps of time, calls of sdl_audio_callback, of video_refresh
\* and of get_video_frame, seeks served, calls of stream_toggle_pause by the
\* event loop
MaxClockTicks == 1
MaxClockCallbacks == 1
MaxClockRefreshes == 2
MaxClockDecodes == 1
MaxClockSeeks == 1
MaxClockPauses == 1
\* the rounding error of a sum of doubles is at most RoundErr units of 0.0001
RoundErr == 1
MaxDelayExtra == 1
\* SpecAbort: packets read_thread offers
MaxAbortPuts == 3

\* SpecSeek: seek keys the user presses
MaxSeekKeys == 2

\* SpecFifo: elements av_fifo_alloc2 is asked for
MaxFifoAlloc == 2

\* SpecFifo: elements the ring grows to
MaxFifoElems == 5

\* SpecFifo: the increment of a call of av_fifo_grow2
MaxFifoInc == 3

\* SpecFifo: elements of one av_fifo_write
MaxFifoWrite == 3

\* SpecFifo: elements written in all
MaxFifoIds == 6

\* SpecFifo: the auto_grow_limit that the larger element size gives
MaxFifoLimit == 3

(***************************************************************************)
(* Program constants                                                       *)
(***************************************************************************)
\* sizeof(MyAVPacketList): a pointer and an int, padded
SizeofMyAVPacketList == 16
AUTO_GROW_DEFAULT_BYTES == 1048576
AV_FIFO_FLAG_AUTO_GROW == 1
\* AVERROR(e) == -e
AVERROR_EINVAL == -22
AVERROR_ENOSPC == -28
AVERROR_EAGAIN == -11
\* AVERROR_EOF is -MKTAG('E','O','F',' '); any negative value that is no
\* AVERROR(errno) stands for it
AVERROR_EOF == -1000
\* AV_NOPTS_VALUE is INT64_MIN in the program; it stands for any value that
\* no timestamp takes
AV_NOPTS_VALUE == -1
\* AVERROR(EIO)
AVERROR_EIO == -5

AVSEEK_FLAG_BYTE == 2

AV_TIME_BASE == 1000000
AVERROR_ENOSYS == -38
SDL_AUDIO_MIN_BUFFER_SIZE == 512
\* the thresholds of compute_target_delay, in hundredths of a second
AV_SYNC_THRESHOLD_MIN == 4
AV_SYNC_THRESHOLD_MAX == 10
AV_SYNC_FRAMEDUP_THRESHOLD == 10
\* seconds
AV_NOSYNC_THRESHOLD == 10
AV_SYNC_AUDIO_MASTER == 0
AV_SYNC_VIDEO_MASTER == 1
AV_SYNC_EXTERNAL_CLOCK == 2
EXTERNAL_CLOCK_MIN_FRAMES == 2
EXTERNAL_CLOCK_MAX_FRAMES == 10
\* 0.900, 1.010 and 0.001 in units of 0.0001
EXTERNAL_CLOCK_SPEED_MIN == 9000
EXTERNAL_CLOCK_SPEED_MAX == 10100
EXTERNAL_CLOCK_SPEED_STEP == 10
\* 15 * 1024 * 1024
MAX_QUEUE_SIZE == 15728640
MIN_FRAMES == 25
VIDEO_PICTURE_QUEUE_SIZE == 3
SUBPICTURE_QUEUE_SIZE == 16
SAMPLE_QUEUE_SIZE == 9
\* size_t is 64 bits wide in the program; the ring never holds more than
\* auto_grow_limit elements, so the largest integer of the checker stands for it
SIZE_MAX == 2147483647

Min(a, b) == IF a < b THEN a ELSE b
Max(a, b) == IF a > b THEN a ELSE b

\* content of ring memory that was allocated and never written
Uninit == [pkt |-> [id |-> 0, size |-> 0, duration |-> 0], serial |-> -1]

(***************************************************************************)
(* libavutil/fifo.c                                                        *)
(* An AVFifo is [buffer, nb_elems, elem_size, offset_r, offset_w,          *)
(* is_empty, flags, auto_grow_limit]; buffer is a function on              *)
(* 0..nb_elems-1.                                                          *)
(***************************************************************************)
av_fifo_alloc2(nb_elems, elem_size, flags) ==
    [buffer          |-> [i \in 0..(nb_elems - 1) |-> Uninit],
     nb_elems        |-> nb_elems,
     elem_size       |-> elem_size,
     offset_r        |-> 0,
     offset_w        |-> 0,
     is_empty        |-> 1,
     flags           |-> flags,
     auto_grow_limit |-> Max(AUTO_GROW_DEFAULT_BYTES \div elem_size, 1)]

av_fifo_can_read(f) ==
    IF f.offset_w <= f.offset_r /\ f.is_empty = 0
    THEN f.nb_elems - f.offset_r + f.offset_w
    ELSE f.offset_w - f.offset_r

av_fifo_can_write(f) == f.nb_elems - av_fifo_can_read(f)

\* memcpy(dst, src, n) / memmove on the element array
MemCopy(buf, dst, src, n) ==
    [i \in DOMAIN buf |-> IF i >= dst /\ i < dst + n THEN buf[src + (i - dst)] ELSE buf[i]]

\* av_fifo_grow2 without the relocation of the wrapped head of the ring
av_fifo_grow2_norelocate(f, inc) ==
    [ret |-> 0,
     f   |-> [f EXCEPT !.buffer   = [i \in 0..(f.nb_elems + inc - 1) |->
                                        IF i < f.nb_elems THEN f.buffer[i] ELSE Uninit],
                       !.nb_elems = f.nb_elems + inc]]

\* av_fifo_grow2 without the memmove of the part of the head that does not
\* fit into the new space
av_fifo_grow2_nomove(f, inc) ==
    IF inc > SIZE_MAX - f.nb_elems
    THEN [ret |-> AVERROR_EINVAL, f |-> f]
    ELSE
      LET tmp == [i \in 0..(f.nb_elems + inc - 1) |->
                     IF i < f.nb_elems THEN f.buffer[i] ELSE Uninit]
          wrapped == f.offset_w <= f.offset_r /\ f.is_empty = 0
          copy == Min(inc, f.offset_w)
          tmp1 == MemCopy(tmp, f.nb_elems, 0, copy)
          ow   == IF copy < f.offset_w
                  THEN f.offset_w - copy
                  ELSE IF copy = inc THEN 0 ELSE f.nb_elems + copy
      IN [ret |-> 0,
          f   |-> [f EXCEPT !.buffer   = IF wrapped THEN tmp1 ELSE tmp,
                            !.offset_w = IF wrapped THEN ow ELSE f.offset_w,
                            !.nb_elems = f.nb_elems + inc]]

av_fifo_grow2(f, inc) ==
    IF inc > SIZE_MAX - f.nb_elems
    THEN [ret |-> AVERROR_EINVAL, f |-> f]
    ELSE
      LET tmp == [i \in 0..(f.nb_elems + inc - 1) |->
                     IF i < f.nb_elems THEN f.buffer[i] ELSE Uninit]
          wrapped == f.offset_w <= f.offset_r /\ f.is_empty = 0
          copy == Min(inc, f.offset_w)
          tmp1 == MemCopy(tmp, f.nb_elems, 0, copy)
          tmp2 == IF copy < f.offset_w
                  THEN MemCopy(tmp1, 0, copy, f.offset_w - copy)
                  ELSE tmp1
          ow   == IF copy < f.offset_w
                  THEN f.offset_w - copy
                  ELSE IF copy = inc THEN 0 ELSE f.nb_elems + copy
      IN [ret |-> 0,
          f   |-> [f EXCEPT !.buffer   = IF wrapped THEN tmp2 ELSE tmp,
                            !.offset_w = IF wrapped THEN ow ELSE f.offset_w,
                            !.nb_elems = f.nb_elems + inc]]

\* fifo_check_space that grows the ring whatever the flag and the limit
fifo_check_space_nolimit(f, to_write) ==
    LET can_write == av_fifo_can_write(f)
        need_grow == IF to_write > can_write THEN to_write - can_write ELSE 0
    IN IF need_grow = 0
       THEN [ret |-> 0, f |-> f]
       ELSE av_fifo_grow2(f, need_grow)

fifo_check_space(f, to_write) ==
    LET can_write == av_fifo_can_write(f)
        need_grow == IF to_write > can_write THEN to_write - can_write ELSE 0
        can_grow  == IF f.auto_grow_limit > f.nb_elems
                     THEN f.auto_grow_limit - f.nb_elems ELSE 0
    IN IF need_grow = 0
       THEN [ret |-> 0, f |-> f]
       ELSE IF f.flags = AV_FIFO_FLAG_AUTO_GROW /\ need_grow <= can_grow
            THEN av_fifo_grow2(f, IF need_grow < can_grow \div 2
                                  THEN need_grow * 2 ELSE can_grow)
            ELSE [ret |-> AVERROR_ENOSPC, f |-> f]

\* the copy loop of fifo_write_common: buf is the sequence still to write
RECURSIVE fifo_write_loop(_, _, _)
fifo_write_loop(f, offset_w, buf) ==
    IF Len(buf) = 0
    THEN [f EXCEPT !.offset_w = offset_w]
    ELSE LET len == Min(f.nb_elems - offset_w, Len(buf))
             nbuf == [i \in DOMAIN f.buffer |->
                         IF i >= offset_w /\ i < offset_w + len
                         THEN buf[i - offset_w + 1] ELSE f.buffer[i]]
             now == IF offset_w + len >= f.nb_elems THEN 0 ELSE offset_w + len
         IN fifo_write_loop([f EXCEPT !.buffer = nbuf], now, SubSeq(buf, len + 1, Len(buf)))

fifo_write_common(f, buf) ==
    LET chk == fifo_check_space(f, Len(buf))
    IN IF chk.ret < 0
       THEN [ret |-> chk.ret, f |-> f]
       ELSE LET g == fifo_write_loop(chk.f, chk.f.offset_w, buf)
            IN [ret |-> 0,
                f   |-> IF Len(buf) # 0 THEN [g EXCEPT !.is_empty = 0] ELSE g]

av_fifo_write(f, buf) == fifo_write_common(f, buf)

\* the copy loop of fifo_peek_common
RECURSIVE fifo_peek_loop(_, _, _)
fifo_peek_loop(f, offset_r, to_read) ==
    IF to_read = 0
    THEN << >>
    ELSE LET len == Min(f.nb_elems - offset_r, to_read)
             nor == IF offset_r + len >= f.nb_elems THEN 0 ELSE offset_r + len
         IN [i \in 1..len |-> f.buffer[offset_r + i - 1]]
            \o fifo_peek_loop(f, nor, to_read - len)

fifo_peek_common(f, nb_elems, offset) ==
    LET can_read == av_fifo_can_read(f)
    IN IF offset > can_read \/ nb_elems > can_read - offset
       THEN [ret |-> AVERROR_EINVAL, buf |-> << >>, nb |-> 0]
       ELSE LET offset_r == IF f.offset_r >= f.nb_elems - offset
                            THEN f.offset_r - (f.nb_elems - offset)
                            ELSE f.offset_r + offset
            IN [ret |-> 0, buf |-> fifo_peek_loop(f, offset_r, nb_elems), nb |-> nb_elems]

av_fifo_drain2(f, size) ==
    LET cur_size == av_fifo_can_read(f)
    IN [f EXCEPT !.is_empty = IF cur_size = size THEN 1 ELSE f.is_empty,
                 !.offset_r = IF f.offset_r >= f.nb_elems - size
                              THEN f.offset_r - (f.nb_elems - size)
                              ELSE f.offset_r + size]

av_fifo_read(f, nb_elems) ==
    LET p == fifo_peek_common(f, nb_elems, 0)
    IN [ret |-> p.ret, buf |-> p.buf, f |-> av_fifo_drain2(f, p.nb)]

\* everything readable, oldest first
FifoContents(f) == fifo_peek_common(f, av_fifo_can_read(f), 0).buf

(***************************************************************************)
(* State                                                                   *)
(***************************************************************************)
VARIABLES
    q,      \* the PacketQueue: pkt_list, nb_packets, size, duration,
            \* abort_request, serial (mutex and cond are in the actions)
    cons,   \* the thread calling packet_queue_get: where it is in the call,
            \* the call's block argument, its return value and out-parameters
    gh,     \* history of the queue's use, read by the properties only
    ctype,  \* codec type of the stream component: "video", "audio", "subtitle"
    fq,     \* the FrameQueue of the component
    d,      \* the Decoder of the component, its codec and filter graph, and
            \* the position and locals of its decoder thread
    pres,   \* the consumer of the frame queue (video_refresh in the event
            \* loop, or the audio callback) and the player's pause state
    ui,     \* where the event loop is in closing/opening the component
    hist,   \* history of the component's use, read by the properties only
    is      \* the VideoState as read_thread uses it, the options of the
            \* command line, and the position and locals of read_thread

pqvars == <<q, cons, gh>>
pipevars == <<ctype, fq, d, pres, ui, hist, is>>
vars == <<q, cons, gh, ctype, fq, d, pres, ui, hist, is>>

\* kinds of packet the demuxer hands over: the null packet and data packets
NullPacket == [size |-> 0, duration |-> 0]
DataPacket == [size |-> 3, duration |-> 2]
PacketKinds == {NullPacket, DataPacket}
\* a packet whose duration the demuxer does not know
NoDurationPacket == [size |-> 3, duration |-> 0]
\* a packet of BigPacketSize bytes
BigPacket == [size |-> BigPacketSize, duration |-> 2]
\* the packets av_read_frame gives in SpecRead
ReadKinds == {DataPacket}

NoPacket == [id |-> 0, size |-> 0, duration |-> 0]

(***************************************************************************)
(* Packet queue (ffplay)                                                   *)
(***************************************************************************)
packet_queue_init ==
    [pkt_list      |-> av_fifo_alloc2(1, SizeofMyAVPacketList, AV_FIFO_FLAG_AUTO_GROW),
     nb_packets    |-> 0,
     size          |-> 0,
     duration      |-> 0,
     abort_request |-> 1,
     serial        |-> 0]

\* packet_queue_put_private that counts the packet before it looks at abort_request
packet_queue_put_private_countfirst(pq, pkt) ==
    IF pq.abort_request = 1
    THEN [ret |-> -1, q |-> [pq EXCEPT !.nb_packets = pq.nb_packets + 1], signal |-> FALSE]
    ELSE LET w == av_fifo_write(pq.pkt_list, <<[pkt |-> pkt, serial |-> pq.serial]>>)
         IN [ret |-> 0,
             q   |-> [pq EXCEPT !.pkt_list   = w.f,
                                !.nb_packets = pq.nb_packets + 1,
                                !.size       = pq.size + pkt.size + SizeofMyAVPacketList,
                                !.duration   = pq.duration + pkt.duration],
             signal |-> TRUE]

\* packet_queue_put_private that does not look at abort_request
packet_queue_put_private_whenaborted(pq, pkt) ==
    LET w == av_fifo_write(pq.pkt_list, <<[pkt |-> pkt, serial |-> pq.serial]>>)
    IN IF w.ret < 0
       THEN [ret |-> w.ret, q |-> pq, signal |-> FALSE]
       ELSE [ret |-> 0,
             q   |-> [pq EXCEPT !.pkt_list   = w.f,
                                !.nb_packets = pq.nb_packets + 1,
                                !.size       = pq.size + pkt.size + SizeofMyAVPacketList,
                                !.duration   = pq.duration + pkt.duration],
             signal |-> TRUE]

\* [ret, q, signal]: signal says that SDL_CondSignal(q->cond) was called
packet_queue_put_private(pq, pkt) ==
    IF pq.abort_request = 1
    THEN [ret |-> -1, q |-> pq, signal |-> FALSE]
    ELSE LET pkt1 == [pkt |-> pkt, serial |-> pq.serial]
             w == av_fifo_write(pq.pkt_list, <<pkt1>>)
         IN IF w.ret < 0
            THEN [ret |-> w.ret, q |-> pq, signal |-> FALSE]
            ELSE [ret |-> 0,
                  q   |-> [pq EXCEPT !.pkt_list   = w.f,
                                     !.nb_packets = pq.nb_packets + 1,
                                     !.size       = pq.size + pkt1.pkt.size + SizeofMyAVPacketList,
                                     !.duration   = pq.duration + pkt1.pkt.duration],
                  signal |-> TRUE]

\* the critical section of packet_queue_put
packet_queue_put(pq, pkt) == packet_queue_put_private(pq, pkt)

\* while (av_fifo_read(q->pkt_list, &pkt1, 1) >= 0) av_packet_free(&pkt1.pkt);
RECURSIVE fifo_drain_all(_)
fifo_drain_all(f) ==
    LET r == av_fifo_read(f, 1)
    IN IF r.ret >= 0 THEN fifo_drain_all(r.f) ELSE r.f

\* packet_queue_flush that leaves the duration as it was
packet_queue_flush_keepduration(pq) ==
    [pq EXCEPT !.pkt_list   = fifo_drain_all(pq.pkt_list),
               !.nb_packets = 0,
               !.size       = 0,
               !.serial     = pq.serial + 1]

packet_queue_flush(pq) ==
    [pq EXCEPT !.pkt_list   = fifo_drain_all(pq.pkt_list),
               !.nb_packets = 0,
               !.size       = 0,
               !.duration   = 0,
               !.serial     = pq.serial + 1]

packet_queue_abort(pq) == [pq EXCEPT !.abort_request = 1]

\* packet_queue_start that only clears the abort flag
packet_queue_start_noserial(pq) == [pq EXCEPT !.abort_request = 0]

packet_queue_start(pq) == [pq EXCEPT !.abort_request = 0, !.serial = pq.serial + 1]

\* packet_queue_get that subtracts the packet's bytes without the entry overhead
packet_queue_get_nooverhead(pq, block) ==
    IF pq.abort_request = 1
    THEN [wait |-> FALSE, ret |-> -1, q |-> pq, pkt1 |-> Uninit]
    ELSE LET r == av_fifo_read(pq.pkt_list, 1)
         IN IF r.ret >= 0
            THEN [wait |-> FALSE, ret |-> 1,
                  q    |-> [pq EXCEPT !.pkt_list   = r.f,
                                      !.nb_packets = pq.nb_packets - 1,
                                      !.size       = pq.size - r.buf[1].pkt.size,
                                      !.duration   = pq.duration - r.buf[1].pkt.duration],
                  pkt1 |-> r.buf[1]]
            ELSE [wait |-> block # 0, ret |-> 0, q |-> pq, pkt1 |-> Uninit]

\* one pass of the for (;;) of packet_queue_get, entered with the mutex held:
\* [wait, ret, q, pkt1]; wait says the pass ended in SDL_CondWait
packet_queue_get(pq, block) ==
    IF pq.abort_request = 1
    THEN [wait |-> FALSE, ret |-> -1, q |-> pq, pkt1 |-> Uninit]
    ELSE LET r == av_fifo_read(pq.pkt_list, 1)
         IN IF r.ret >= 0
            THEN [wait |-> FALSE, ret |-> 1,
                  q    |-> [pq EXCEPT !.pkt_list   = r.f,
                                      !.nb_packets = pq.nb_packets - 1,
                                      !.size       = pq.size - (r.buf[1].pkt.size + SizeofMyAVPacketList),
                                      !.duration   = pq.duration - r.buf[1].pkt.duration],
                  pkt1 |-> r.buf[1]]
            ELSE IF block = 0
                 THEN [wait |-> FALSE, ret |-> 0, q |-> pq, pkt1 |-> Uninit]
                 ELSE [wait |-> TRUE, ret |-> 0, q |-> pq, pkt1 |-> Uninit]

(***************************************************************************)
(* SpecPQ: one packet queue and its callers                                *)
(***************************************************************************)
ConsInit == [pc |-> "idle", block |-> 0, ret |-> 0, pkt |-> NoPacket, serial |-> -1]

GhInit == [offered   |-> 0,      \* calls of packet_queue_put
           n_put     |-> 0,      \* puts that returned 0
           n_get     |-> 0,      \* gets that returned a packet
           n_flushed |-> 0,      \* packets freed by packet_queue_flush
           accepted  |-> << >>]  \* entries put and neither got nor flushed, oldest first

\* no stream component is open and read_thread does not run
NoComponent ==
    /\ is = << >>
    /\ ctype = "none"
    /\ fq = << >>
    /\ d = << >>
    /\ pres = << >>
    /\ ui = "closed"
    /\ hist = << >>

InitPQ ==
    /\ q = packet_queue_init
    /\ cons = ConsInit
    /\ gh = GhInit
    /\ NoComponent

\* SDL_CondSignal(q->cond): a thread in SDL_CondWait is released
Signalled(c) == IF c.pc = "wait" THEN [c EXCEPT !.pc = "woken"] ELSE c

PQPut(kind, maxPuts) ==
    /\ gh.offered < maxPuts
    /\ LET pkt == [id |-> gh.offered + 1, size |-> kind.size, duration |-> kind.duration]
           r == packet_queue_put(q, pkt)
       IN /\ q' = r.q
          /\ cons' = IF r.signal THEN Signalled(cons) ELSE cons
          /\ gh' = [gh EXCEPT !.offered = gh.offered + 1,
                              !.n_put = IF r.ret = 0 THEN gh.n_put + 1 ELSE gh.n_put,
                              !.accepted = IF r.ret = 0
                                           THEN Append(gh.accepted, [pkt |-> pkt, serial |-> q.serial])
                                           ELSE gh.accepted]
    /\ UNCHANGED pipevars

\* the pass of packet_queue_get's loop made by the consumer, and what the
\* caller sees when the call returns
GetPass(block) ==
    LET r == packet_queue_get(q, block)
    IN /\ q' = r.q
       /\ cons' = IF r.wait
                  THEN [cons EXCEPT !.pc = "wait", !.block = block]
                  ELSE [cons EXCEPT !.pc = "idle", !.block = block, !.ret = r.ret,
                                    !.pkt = IF r.ret = 1 THEN r.pkt1.pkt ELSE cons.pkt,
                                    !.serial = IF r.ret = 1 THEN r.pkt1.serial ELSE cons.serial]
       /\ gh' = [gh EXCEPT !.n_get = IF r.ret = 1 THEN gh.n_get + 1 ELSE gh.n_get,
                           !.accepted = IF r.ret = 1 THEN Tail(gh.accepted) ELSE gh.accepted]
       /\ UNCHANGED pipevars

PQGet ==
    /\ cons.pc = "idle"
    /\ \E block \in {0, 1} : GetPass(block)

\* the consumer returns from SDL_CondWait and goes round the loop again
PQGetWoken ==
    /\ cons.pc = "woken"
    /\ GetPass(cons.block)

PQFlush ==
    /\ q.serial < MaxSerial
    /\ q' = packet_queue_flush(q)
    /\ gh' = [gh EXCEPT !.n_flushed = gh.n_flushed + Len(gh.accepted),
                        !.accepted = << >>]
    /\ UNCHANGED cons
    /\ UNCHANGED pipevars

PQStart ==
    /\ q.serial < MaxSerial
    /\ q' = packet_queue_start(q)
    /\ UNCHANGED <<cons, gh>>
    /\ UNCHANGED pipevars

PQAbort ==
    /\ q' = packet_queue_abort(q)
    /\ cons' = Signalled(cons)
    /\ UNCHANGED gh
    /\ UNCHANGED pipevars

PQPutAny == \E kind \in PacketKinds : PQPut(kind, MaxPuts)

NextPQ == PQPutAny \/ PQGet \/ PQGetWoken \/ PQFlush \/ PQStart \/ PQAbort

SpecPQ == InitPQ /\ [][NextPQ]_vars

(***************************************************************************)
(* SpecPQOrder: a started queue with one producer and one consumer, run    *)
(* long enough for the ring to wrap and to grow in every way it can        *)
(***************************************************************************)
InitPQOrder ==
    /\ q = packet_queue_start(packet_queue_init)
    /\ cons = ConsInit
    /\ gh = GhInit
    /\ NoComponent

PQPutOrder == PQPut(DataPacket, MaxPutsOrder)

NextPQOrder == PQPutOrder \/ PQGet \/ PQGetWoken \/ PQFlush

SpecPQOrder == InitPQOrder /\ [][NextPQOrder]_vars

(***************************************************************************)
(* SpecPQWait: threads blocked in packet_queue_get when the queue is       *)
(* aborted.  cons is one record per thread here.  The queue is started     *)
(* only while no thread is inside packet_queue_get, as decoder_start does  *)
(* before it creates the thread that gets from the queue.                  *)
(***************************************************************************)
Getters == 1..NumGetters

\* the threads inside SDL_CondWait(q->cond, q->mutex): waiting for a signal,
\* or signalled and waiting for the mutex
InCondWait(c) == {t \in Getters : c[t].pc \in {"wait", "woken"}}

\* SDL_CondSignal that restarts no thread
CondSignal_lost(c) == {c}

\* SDL_CondSignal(q->cond): restarts one of the threads waiting on the
\* condition variable, if there is one; the set of outcomes
CondSignal(c) ==
    IF \E t \in Getters : c[t].pc = "wait"
    THEN {[c EXCEPT ![t].pc = "woken"] : t \in {u \in Getters : c[u].pc = "wait"}}
    ELSE {c}

InitPQWait ==
    /\ q = packet_queue_start(packet_queue_init)
    /\ cons = [t \in Getters |-> ConsInit]
    /\ gh = [offered   |-> 0,    \* calls of packet_queue_put
             aborts    |-> 0,    \* calls of packet_queue_abort
             at_abort  |-> {},   \* threads in SDL_CondWait at the last abort
             ret_abort |-> {}]   \* those of them that have returned -1 since
    /\ NoComponent

WaitPut ==
    /\ gh.offered < MaxWaitPuts
    /\ LET pkt == [id |-> gh.offered + 1, size |-> DataPacket.size,
                   duration |-> DataPacket.duration]
           r == packet_queue_put(q, pkt)
       IN /\ q' = r.q
          /\ IF r.signal THEN cons' \in CondSignal(cons) ELSE cons' = cons
    /\ gh' = [gh EXCEPT !.offered = @ + 1]
    /\ UNCHANGED pipevars

\* one pass of thread t through the loop of packet_queue_get(q, pkt, 1, &serial)
WaitGetPass(t) ==
    LET r == packet_queue_get(q, 1)
    IN /\ q' = r.q
       /\ cons' = [cons EXCEPT ![t] =
                     IF r.wait
                     THEN [@ EXCEPT !.pc = "wait", !.block = 1]
                     ELSE [@ EXCEPT !.pc = "idle", !.block = 1, !.ret = r.ret,
                                    !.pkt = IF r.ret = 1 THEN r.pkt1.pkt ELSE @,
                                    !.serial = IF r.ret = 1 THEN r.pkt1.serial ELSE @]]
       /\ gh' = [gh EXCEPT !.ret_abort = IF ~r.wait /\ r.ret < 0 /\ t \in gh.at_abort
                                         THEN @ \cup {t} ELSE @]
       /\ UNCHANGED pipevars

WaitGet(t) ==
    /\ cons[t].pc = "idle"
    /\ WaitGetPass(t)

\* thread t has the mutex again and returns from SDL_CondWait
WaitGetWoken(t) ==
    /\ cons[t].pc = "woken"
    /\ WaitGetPass(t)

WaitAbort ==
    /\ gh.aborts < MaxAborts
    /\ q' = packet_queue_abort(q)
    /\ cons' \in CondSignal(cons)
    /\ gh' = [gh EXCEPT !.aborts = @ + 1,
                        !.at_abort = InCondWait(cons),
                        !.ret_abort = {}]
    /\ UNCHANGED pipevars

WaitStart ==
    /\ q.abort_request = 1
    /\ q.serial < MaxSerial
    /\ InCondWait(cons) = {}
    /\ q' = packet_queue_start(q)
    /\ UNCHANGED <<cons, gh>>
    /\ UNCHANGED pipevars

NextPQWait ==
    \/ WaitPut
    \/ \E t \in Getters : WaitGet(t)
    \/ \E t \in Getters : WaitGetWoken(t)
    \/ WaitAbort
    \/ WaitStart

\* a thread that was signalled gets the mutex in the end
SpecPQWait ==
    /\ InitPQWait
    /\ [][NextPQWait]_vars
    /\ \A t \in Getters : WF_vars(WaitGetWoken(t))

(***************************************************************************)
(* Frame queue (ffplay)                                                    *)
(* A Frame is [id, serial, origin]: id names the picture, samples or       *)
(* subtitle the slot holds (0: none); origin is the serial of the packet   *)
(* the codec made it from, history kept with the data.  A Frame * is the   *)
(* index of the slot, -1 for NULL.                                         *)
(***************************************************************************)
FRAME_QUEUE_SIZE ==
    Max(SAMPLE_QUEUE_SIZE, Max(VIDEO_PICTURE_QUEUE_SIZE, SUBPICTURE_QUEUE_SIZE))

\* an AVFrame / AVSubtitle / AVPacket that holds nothing
NoFrame == [id |-> 0, origin |-> 0]

\* a slot after memset(f, 0, sizeof(FrameQueue))
ZeroFrame == [id |-> 0, serial |-> 0, origin |-> 0]

frame_queue_init(max_size, keep_last) ==
    LET n == Min(Min(max_size, FRAME_QUEUE_SIZE), FrameQueueCap)
    IN [queue        |-> [i \in 0..(n - 1) |-> ZeroFrame],
        rindex       |-> 0,
        windex       |-> 0,
        size         |-> 0,
        max_size     |-> n,
        keep_last    |-> IF keep_last # 0 THEN 1 ELSE 0,
        rindex_shown |-> 0]

frame_queue_unref_item(vp) == [vp EXCEPT !.id = 0, !.origin = 0]

\* frame_queue_peek that does not step over the frame kept as last shown
frame_queue_peek_noshown(f) == f.rindex % f.max_size

frame_queue_peek(f) == (f.rindex + f.rindex_shown) % f.max_size

frame_queue_peek_next(f) == (f.rindex + f.rindex_shown + 1) % f.max_size

frame_queue_peek_last(f) == f.rindex

\* frame_queue_peek_writable that does not wait for a free slot
frame_queue_peek_writable_nowait(f, pktq) ==
    IF pktq.abort_request = 1
    THEN [wait |-> FALSE, vp |-> -1]
    ELSE [wait |-> FALSE, vp |-> f.windex]

\* [wait, vp]: wait says the caller is in SDL_CondWait
frame_queue_peek_writable(f, pktq) ==
    IF f.size >= f.max_size /\ pktq.abort_request = 0
    THEN [wait |-> TRUE, vp |-> -1]
    ELSE IF pktq.abort_request = 1
         THEN [wait |-> FALSE, vp |-> -1]
         ELSE [wait |-> FALSE, vp |-> f.windex]

frame_queue_peek_readable(f, pktq) ==
    IF f.size - f.rindex_shown <= 0 /\ pktq.abort_request = 0
    THEN [wait |-> TRUE, vp |-> -1]
    ELSE IF pktq.abort_request = 1
         THEN [wait |-> FALSE, vp |-> -1]
         ELSE [wait |-> FALSE, vp |-> (f.rindex + f.rindex_shown) % f.max_size]

\* frame_queue_push that leaves size as it was
frame_queue_push_nocount(f) ==
    [f EXCEPT !.windex = IF f.windex + 1 = f.max_size THEN 0 ELSE f.windex + 1]

frame_queue_push(f) ==
    [f EXCEPT !.windex = IF f.windex + 1 = f.max_size THEN 0 ELSE f.windex + 1,
              !.size   = f.size + 1]

\* frame_queue_next that releases the frame it marks as shown
frame_queue_next_release(f) ==
    IF f.keep_last = 1 /\ f.rindex_shown = 0
    THEN [f EXCEPT !.rindex_shown = 1,
                   !.queue[f.rindex] = frame_queue_unref_item(@)]
    ELSE [f EXCEPT !.queue[f.rindex] = frame_queue_unref_item(@),
                   !.rindex = IF f.rindex + 1 = f.max_size THEN 0 ELSE f.rindex + 1,
                   !.size   = f.size - 1]

frame_queue_next(f) ==
    IF f.keep_last = 1 /\ f.rindex_shown = 0
    THEN [f EXCEPT !.rindex_shown = 1]
    ELSE [f EXCEPT !.queue[f.rindex] = frame_queue_unref_item(@),
                   !.rindex = IF f.rindex + 1 = f.max_size THEN 0 ELSE f.rindex + 1,
                   !.size   = f.size - 1]

frame_queue_nb_remaining(f) == f.size - f.rindex_shown

(***************************************************************************)
(* Decoder, codec and filter graph                                         *)
(* The codec and the filter graph are the libraries' own state: what they  *)
(* were given and have not yet output, oldest first.                       *)
(***************************************************************************)
\* the codec was sent the null packet: it is draining
Draining(codec) == Len(codec) > 0 /\ codec[Len(codec)].id = 0

\* avcodec_receive_frame: the outcomes the codec may give
avcodec_receive_frame(codec) ==
    IF Len(codec) > 0 /\ Head(codec).id = 0
    THEN {[ret |-> AVERROR_EOF, frame |-> NoFrame, codec |-> codec]}
    ELSE (IF ~Draining(codec) /\ Len(codec) <= MaxCodecDelay
          THEN {[ret |-> AVERROR_EAGAIN, frame |-> NoFrame, codec |-> codec]} ELSE {})
         \cup
         (IF Len(codec) > 0
          THEN {[ret |-> 0, frame |-> Head(codec), codec |-> Tail(codec)]} ELSE {})

avcodec_send_packet(codec, pkt) ==
    IF Draining(codec)
    THEN [ret |-> AVERROR_EOF, codec |-> codec]
    ELSE IF Len(codec) > MaxCodecDelay
         THEN [ret |-> AVERROR_EAGAIN, codec |-> codec]
         ELSE [ret |-> 0, codec |-> Append(codec, pkt)]

\* av_buffersink_get_frame_flags: the outcomes the filter graph may give
av_buffersink_get_frame(filt) ==
    (IF Len(filt) <= MaxFilterDelay
     THEN {[ret |-> AVERROR_EAGAIN, frame |-> NoFrame, filt |-> filt]} ELSE {})
    \cup
    (IF Len(filt) > 0
     THEN {[ret |-> 0, frame |-> Head(filt), filt |-> Tail(filt)]} ELSE {})

\* the Decoder after decoder_init, its new codec context, and the locals of
\* the decoder thread that decoder_start creates
stream_component_open(type) ==
    [pkt            |-> NoFrame,
     pkt_serial     |-> -1,
     finished       |-> 0,
     packet_pending |-> 0,
     next_pts       |-> 0,
     start_pts      |-> AV_NOPTS_VALUE,
     codec          |-> << >>,
     filt           |-> << >>,
     last_serial    |-> -1,
     frame          |-> NoFrame,
     ret            |-> AVERROR_EAGAIN,
     alive          |-> TRUE,
     pc             |-> IF type = "subtitle" THEN "write" ELSE "decode"]

\* the decoder thread returns
ThreadExit(dd) == [dd EXCEPT !.alive = FALSE, !.pc = "done"]

\* what decoder_decode_frame does with a packet it got, without the flush of
\* the codec when the serial changed
decoder_new_packet_noflush(dd, pkt1) ==
    [dd EXCEPT !.pkt        = [id |-> pkt1.pkt.id, origin |-> pkt1.serial],
               !.pkt_serial = pkt1.serial,
               !.finished   = IF dd.pkt_serial # pkt1.serial THEN 0 ELSE @,
               !.next_pts   = IF dd.pkt_serial # pkt1.serial THEN dd.start_pts ELSE @]

\* the same, with the codec flushed but finished and next_pts left as they are
decoder_new_packet_keepfinished(dd, pkt1) ==
    [dd EXCEPT !.pkt        = [id |-> pkt1.pkt.id, origin |-> pkt1.serial],
               !.pkt_serial = pkt1.serial,
               !.codec      = IF dd.pkt_serial # pkt1.serial THEN << >> ELSE @]

\* what decoder_decode_frame does with the packet packet_queue_get gave it
decoder_new_packet(dd, pkt1) ==
    [dd EXCEPT !.pkt        = [id |-> pkt1.pkt.id, origin |-> pkt1.serial],
               !.pkt_serial = pkt1.serial,
               !.codec      = IF dd.pkt_serial # pkt1.serial THEN << >> ELSE @,
               !.finished   = IF dd.pkt_serial # pkt1.serial THEN 0 ELSE @,
               !.next_pts   = IF dd.pkt_serial # pkt1.serial THEN dd.start_pts ELSE @]

\* a serial test that lets every packet pass
PacketIsStale_never(dd, pktq) == FALSE

\* d->queue->serial != d->pkt_serial
PacketIsStale(dd, pktq) == pktq.serial # dd.pkt_serial

\* a serial test that lets every frame pass
FrameIsStale_never(vp, pktq) == FALSE

\* vp->serial != is->videoq.serial, af->serial != is->audioq.serial
FrameIsStale(vp, pktq) == vp.serial # pktq.serial

(***************************************************************************)
(* SpecPipe: one stream component                                          *)
(***************************************************************************)
FrameQueueOf(type) ==
    IF type = "video" THEN frame_queue_init(VIDEO_PICTURE_QUEUE_SIZE, 1)
    ELSE IF type = "audio" THEN frame_queue_init(SAMPLE_QUEUE_SIZE, 1)
    ELSE frame_queue_init(SUBPICTURE_QUEUE_SIZE, 0)

InitPipe ==
    /\ ctype \in {"video", "audio", "subtitle"}
    /\ q = packet_queue_start(packet_queue_init)
    /\ fq = FrameQueueOf(ctype)
    /\ d = stream_component_open(ctype)
    /\ pres = [pc |-> "idle", paused |-> 0, step |-> 0, force_refresh |-> 0,
               audio_open |-> (ctype = "audio")]
    /\ ui = "open"
    /\ hist = [offered |-> 0,      \* packets the reader offered
               seeks   |-> 0,      \* seeks served
               reopens |-> 0,      \* times the component was closed
               pushed  |-> << >>,  \* ids of the frames pushed, in push order
               taken   |-> << >>,  \* ids of the frames the consumer advanced to
               late    |-> FALSE,  \* a frame was pushed after a flush overtook it
               cleared |-> FALSE,  \* a new serial made the decoder clear finished
               stale_pending |-> FALSE, \* a pending packet was found to be stale
               cmp_serial |-> 0]   \* the queue's serial when video_refresh compared
    /\ cons = ConsInit
    /\ gh = GhInit
    /\ is = [eof |-> 0]

(* read_thread *)
\* av_read_frame gave a packet of the stream
ReadPut ==
    /\ hist.offered < MaxPipePuts
    /\ LET pkt == [id |-> hist.offered + 1, size |-> DataPacket.size,
                   duration |-> DataPacket.duration]
       IN q' = packet_queue_put(q, pkt).q
    /\ is' = [is EXCEPT !.eof = 0]
    /\ hist' = [hist EXCEPT !.offered = @ + 1]
    /\ UNCHANGED <<cons, gh, ctype, fq, d, pres, ui>>

\* av_read_frame gave AVERROR_EOF: the null packet is put, once
ReadEof ==
    /\ hist.offered < MaxPipePuts
    /\ is.eof = 0
    /\ ui # "closed"
    /\ LET pkt == [id |-> 0, size |-> NullPacket.size, duration |-> NullPacket.duration]
       IN q' = packet_queue_put(q, pkt).q
    /\ is' = [is EXCEPT !.eof = 1]
    /\ hist' = [hist EXCEPT !.offered = @ + 1]
    /\ UNCHANGED <<cons, gh, ctype, fq, d, pres, ui>>

\* the seek request served: if avformat_seek_file succeeded the queue is
\* flushed; a paused player steps
ReadSeek ==
    /\ hist.seeks < MaxSeeks
    /\ ui # "closed"
    /\ \E ret \in {0, -1} : q' = IF ret < 0 THEN q ELSE packet_queue_flush(q)
    /\ is' = [is EXCEPT !.eof = 0]
    /\ pres' = IF pres.paused = 1 THEN [pres EXCEPT !.paused = 0, !.step = 1] ELSE pres
    /\ hist' = [hist EXCEPT !.seeks = @ + 1]
    /\ UNCHANGED <<cons, gh, ctype, fq, d, ui>>

(* decoder thread: decoder_decode_frame *)
\* the first part of the loop: frames the codec still holds
DecodeReceive ==
    /\ ctype # "subtitle"
    /\ d.alive /\ d.pc = "decode"
    /\ IF q.serial # d.pkt_serial
       THEN d' = [d EXCEPT !.pc = "feed"]
       ELSE IF q.abort_request = 1
            THEN d' = ThreadExit(d)
            ELSE \E out \in avcodec_receive_frame(d.codec) :
                   IF out.ret = AVERROR_EAGAIN
                   THEN d' = [d EXCEPT !.pc = "feed"]
                   ELSE IF out.ret = AVERROR_EOF
                   THEN \* avcodec_flush_buffers; the call returns 0 and the
                        \* thread calls again
                        d' = [d EXCEPT !.finished = d.pkt_serial, !.codec = << >>]
                   ELSE \/ \* get_video_frame drops the frame early
                           /\ ctype = "video"
                           /\ q.nb_packets > 0
                           /\ d' = [d EXCEPT !.codec = out.codec]
                        \/ \* the frame goes into the filter graph, which is
                           \* built anew when the serial changed
                           d' = [d EXCEPT !.codec = out.codec,
                                          !.next_pts = IF ctype = "audio"
                                                       THEN out.frame.id + 1 ELSE @,
                                          !.last_serial = d.pkt_serial,
                                          !.filt = Append(IF d.last_serial # d.pkt_serial
                                                          THEN << >> ELSE d.filt,
                                                          out.frame),
                                          !.pc = "sink"]
    /\ UNCHANGED <<q, cons, gh, is, ctype, fq, pres, ui, hist>>

\* the second part of the loop: the pending packet or packet_queue_get
DecodeGetPacket ==
    /\ d.alive /\ d.pc = "feed"
    /\ IF d.packet_pending = 1
       THEN /\ d' = [d EXCEPT !.packet_pending = 0, !.pc = "chk"]
            /\ q' = q
            /\ hist' = [hist EXCEPT !.stale_pending = @ \/ PacketIsStale(d, q)]
       ELSE LET r == packet_queue_get(q, 1)
            IN /\ ~r.wait
               /\ q' = r.q
               /\ d' = IF r.ret < 0
                       THEN ThreadExit(d)
                       ELSE [decoder_new_packet(d, r.pkt1) EXCEPT !.pc = "chk"]
               /\ hist' = [hist EXCEPT !.cleared =
                              @ \/ (r.ret >= 0 /\ d.finished # 0 /\ d'.finished = 0)]
    /\ UNCHANGED <<cons, gh, is, ctype, fq, pres, ui>>

\* the packet is dropped if its serial is not the queue's, else it is decoded
DecodeSendPacket ==
    /\ d.alive /\ d.pc = "chk"
    /\ IF PacketIsStale(d, q)
       THEN /\ d' = [d EXCEPT !.pkt = NoFrame, !.pc = "feed"]
            /\ fq' = fq
       ELSE IF ctype = "subtitle" /\ d.pkt.id = 0
            THEN \* avcodec_decode_subtitle2 of the null packet: no subtitle
                 /\ fq' = [fq EXCEPT !.queue[fq.windex] = frame_queue_unref_item(@)]
                 /\ d' = [d EXCEPT !.pkt = NoFrame, !.ret = AVERROR_EOF, !.pc = "decode"]
       ELSE IF ctype = "subtitle"
            THEN \* avcodec_decode_subtitle2 into the slot peek_writable gave
                 \E got_frame \in {0, 1} :
                    /\ fq' = [fq EXCEPT !.queue[fq.windex] =
                                 IF got_frame = 1
                                 THEN [@ EXCEPT !.id = d.pkt.id, !.origin = d.pkt.origin]
                                 ELSE frame_queue_unref_item(@)]
                    /\ d' = [d EXCEPT !.pkt = NoFrame,
                                      !.ret = IF got_frame = 1 THEN 0 ELSE AVERROR_EAGAIN,
                                      !.pc = "decode"]
            ELSE LET s == avcodec_send_packet(d.codec, d.pkt)
                 IN /\ d' = IF s.ret = AVERROR_EAGAIN
                            THEN [d EXCEPT !.packet_pending = 1, !.pc = "decode"]
                            ELSE [d EXCEPT !.codec = s.codec, !.pkt = NoFrame, !.pc = "decode"]
                    /\ fq' = fq
    /\ UNCHANGED <<q, cons, gh, is, ctype, pres, ui, hist>>

\* avcodec_send_packet returns EAGAIN after avcodec_receive_frame did: the
\* packet is kept as pending
DecodeSendRefused ==
    /\ ctype # "subtitle"
    /\ d.alive /\ d.pc = "chk"
    /\ ~PacketIsStale(d, q)
    /\ d' = [d EXCEPT !.packet_pending = 1, !.pc = "decode"]
    /\ UNCHANGED <<q, cons, gh, is, ctype, fq, pres, ui, hist>>

(* video_thread, audio_thread *)
\* av_buffersink_get_frame_flags in the loop after av_buffersrc_add_frame
ThreadSink ==
    /\ ctype # "subtitle"
    /\ d.alive /\ d.pc = "sink"
    /\ \E out \in av_buffersink_get_frame(d.filt) :
          d' = IF out.ret = AVERROR_EAGAIN
               THEN [d EXCEPT !.pc = "decode"]
               ELSE [d EXCEPT !.filt = out.filt, !.frame = out.frame, !.pc = "write"]
    /\ UNCHANGED <<q, cons, gh, is, ctype, fq, pres, ui, hist>>

\* queue_picture, and the same steps in audio_thread: the slot is filled
\* with the frame and the decoder's pkt_serial, and pushed
ThreadQueueFrame ==
    /\ ctype # "subtitle"
    /\ d.alive /\ d.pc = "write"
    /\ LET r == frame_queue_peek_writable(fq, q)
       IN /\ ~r.wait
          /\ IF r.vp < 0
             THEN /\ d' = ThreadExit(d)
                  /\ UNCHANGED <<fq, hist>>
             ELSE /\ fq' = frame_queue_push(
                              [fq EXCEPT !.queue[r.vp] = [id     |-> d.frame.id,
                                                          serial |-> d.pkt_serial,
                                                          origin |-> d.frame.origin]])
                  /\ d' = [d EXCEPT !.frame = NoFrame,
                                    !.pc = IF q.serial # d.pkt_serial THEN "decode" ELSE "sink"]
                  /\ hist' = [hist EXCEPT !.pushed = Append(@, d.frame.id),
                                          !.late = @ \/ q.serial # d.pkt_serial]
    /\ UNCHANGED <<q, cons, gh, is, ctype, pres, ui>>

(* subtitle_thread *)
SubtitlePeekWritable ==
    /\ ctype = "subtitle"
    /\ d.alive /\ d.pc = "write"
    /\ LET r == frame_queue_peek_writable(fq, q)
       IN /\ ~r.wait
          /\ d' = IF r.vp < 0
                  THEN ThreadExit(d)
                  ELSE [d EXCEPT !.ret = AVERROR_EAGAIN, !.pc = "decode"]
    /\ UNCHANGED <<q, cons, gh, is, ctype, fq, pres, ui, hist>>

\* the first part of decoder_decode_frame's loop for a subtitle decoder, and
\* what subtitle_thread does with the subtitle when the call returns 1
SubtitleReceive ==
    /\ ctype = "subtitle"
    /\ d.alive /\ d.pc = "decode"
    /\ IF q.serial # d.pkt_serial
       THEN d' = [d EXCEPT !.pc = "feed"] /\ UNCHANGED <<fq, hist>>
       ELSE IF q.abort_request = 1
            THEN d' = ThreadExit(d) /\ UNCHANGED <<fq, hist>>
            ELSE IF d.ret = AVERROR_EOF
                 THEN /\ d' = [d EXCEPT !.finished = d.pkt_serial, !.codec = << >>,
                                        !.pc = "write"]
                      /\ UNCHANGED <<fq, hist>>
            ELSE IF d.ret < 0
                 THEN d' = [d EXCEPT !.pc = "feed"] /\ UNCHANGED <<fq, hist>>
                 ELSE /\ d' = [d EXCEPT !.pc = "write"]
                      /\ \/ \* sp->sub.format == 0
                            /\ fq' = frame_queue_push(
                                        [fq EXCEPT !.queue[fq.windex].serial = d.pkt_serial])
                            /\ hist' = [hist EXCEPT
                                           !.pushed = Append(@, fq.queue[fq.windex].id),
                                           !.late = @ \/ q.serial # d.pkt_serial]
                         \/ \* avsubtitle_free(&sp->sub)
                            /\ fq' = [fq EXCEPT !.queue[fq.windex] = frame_queue_unref_item(@)]
                            /\ hist' = hist
    /\ UNCHANGED <<q, cons, gh, is, ctype, pres, ui>>

(* event loop: video_refresh *)
\* refresh_loop_wait_event has called video_refresh, or the call is at retry
VideoRefreshCalled ==
    /\ ctype = "video"
    /\ ui = "open"
    /\ \/ pres.pc = "retry"
       \/ pres.pc = "idle" /\ (pres.paused = 0 \/ pres.force_refresh = 1)

\* the frame to show next is of an old serial: it is passed over
VRSkipStale ==
    /\ VideoRefreshCalled
    /\ frame_queue_nb_remaining(fq) > 0
    /\ FrameIsStale(fq.queue[frame_queue_peek(fq)], q)
    /\ fq' = frame_queue_next(fq)
    /\ pres' = [pres EXCEPT !.pc = "retry"]
    /\ hist' = [hist EXCEPT !.taken = Append(@, fq.queue[frame_queue_peek(fq)].id)]
    /\ UNCHANGED <<q, cons, gh, is, ctype, d, ui>>

\* the frame to show next has the serial of the packet queue
VRCheck ==
    /\ VideoRefreshCalled
    /\ frame_queue_nb_remaining(fq) > 0
    /\ ~FrameIsStale(fq.queue[frame_queue_peek(fq)], q)
    /\ pres' = [pres EXCEPT !.pc = "checked"]
    /\ hist' = [hist EXCEPT !.cmp_serial = q.serial]
    /\ UNCHANGED <<q, cons, gh, is, ctype, fq, d, ui>>

\* nothing to show, or the player is paused, or it is not yet time
VRShowLater ==
    /\ ctype = "video"
    /\ \/ VideoRefreshCalled /\ frame_queue_nb_remaining(fq) = 0
       \/ pres.pc = "checked"
    /\ pres' = [pres EXCEPT !.pc = "display"]
    /\ UNCHANGED <<q, cons, gh, is, ctype, fq, d, ui, hist>>

\* the frame is late and another one follows: it is dropped
VRDropLate ==
    /\ ctype = "video"
    /\ pres.pc = "checked"
    /\ frame_queue_nb_remaining(fq) > 1
    /\ pres.paused = 0
    /\ pres.step = 0
    /\ fq' = frame_queue_next(fq)
    /\ pres' = [pres EXCEPT !.pc = "retry"]
    /\ hist' = [hist EXCEPT !.taken = Append(@, fq.queue[frame_queue_peek(fq)].id)]
    /\ UNCHANGED <<q, cons, gh, is, ctype, d, ui>>

\* the frame becomes the shown frame; a stepping player pauses again
VRTake ==
    /\ ctype = "video"
    /\ pres.pc = "checked"
    /\ pres.paused = 0
    /\ fq' = frame_queue_next(fq)
    /\ pres' = [pres EXCEPT !.force_refresh = 1,
                            !.paused = IF pres.step = 1 THEN 1 ELSE 0,
                            !.pc = "display"]
    /\ hist' = [hist EXCEPT !.taken = Append(@, fq.queue[frame_queue_peek(fq)].id)]
    /\ UNCHANGED <<q, cons, gh, is, ctype, d, ui>>

\* at display: video_display shows the frame at frame_queue_peek_last
VideoDisplays == pres.force_refresh = 1 /\ fq.rindex_shown = 1

\* the end of video_refresh
VRDisplay ==
    /\ ctype = "video"
    /\ pres.pc = "display"
    /\ pres' = [pres EXCEPT !.force_refresh = 0, !.pc = "idle"]
    /\ UNCHANGED <<q, cons, gh, is, ctype, fq, d, ui, hist>>

\* the subtitle loop of video_refresh: a subtitle of an old serial, or one
\* whose time is over, is passed
SubtitleAdvance ==
    /\ ctype = "subtitle"
    /\ ui = "open"
    /\ pres.paused = 0
    /\ frame_queue_nb_remaining(fq) > 0
    /\ fq' = frame_queue_next(fq)
    /\ hist' = [hist EXCEPT !.taken = Append(@, fq.queue[frame_queue_peek(fq)].id)]
    /\ UNCHANGED <<q, cons, gh, is, ctype, d, pres, ui>>

(* audio thread of SDL: sdl_audio_callback, audio_decode_frame *)
AudioCallbackRuns ==
    /\ ctype = "audio"
    /\ pres.audio_open
    /\ \/ pres.pc = "loop"
       \/ pres.pc = "idle" /\ pres.paused = 0

\* frame_queue_peek_readable returns NULL
AudioNoFrame ==
    /\ AudioCallbackRuns
    /\ LET r == frame_queue_peek_readable(fq, q)
       IN ~r.wait /\ r.vp < 0
    /\ pres.pc = "loop"
    /\ pres' = [pres EXCEPT !.pc = "idle"]
    /\ UNCHANGED <<q, cons, gh, is, ctype, fq, d, ui, hist>>

\* the frame got is of an old serial: the loop goes round
AudioSkipStale ==
    /\ AudioCallbackRuns
    /\ LET r == frame_queue_peek_readable(fq, q)
       IN /\ ~r.wait /\ r.vp >= 0
          /\ FrameIsStale(fq.queue[r.vp], q)
          /\ hist' = [hist EXCEPT !.taken = Append(@, fq.queue[r.vp].id)]
    /\ fq' = frame_queue_next(fq)
    /\ pres' = [pres EXCEPT !.pc = "loop"]
    /\ UNCHANGED <<q, cons, gh, is, ctype, d, ui>>

\* the frame got is returned to the callback, which plays it
AudioPlay ==
    /\ AudioCallbackRuns
    /\ LET r == frame_queue_peek_readable(fq, q)
       IN /\ ~r.wait /\ r.vp >= 0
          /\ ~FrameIsStale(fq.queue[r.vp], q)
          /\ hist' = [hist EXCEPT !.taken = Append(@, fq.queue[r.vp].id)]
    /\ fq' = frame_queue_next(fq)
    /\ pres' = [pres EXCEPT !.pc = "idle"]
    /\ UNCHANGED <<q, cons, gh, is, ctype, d, ui>>

(* event loop: key and window events *)
\* the event loop is not inside video_refresh (the audio callback runs in a
\* thread of its own)
EventLoopFree == ctype = "audio" \/ pres.pc = "idle"

Expose ==
    /\ ctype = "video"
    /\ ui \in {"open", "closed"}
    /\ EventLoopFree
    /\ pres.force_refresh = 0
    /\ pres' = [pres EXCEPT !.force_refresh = 1]
    /\ UNCHANGED <<q, cons, gh, is, ctype, fq, d, ui, hist>>

TogglePause ==
    /\ ui \in {"open", "closed"}
    /\ EventLoopFree
    /\ pres' = [pres EXCEPT !.paused = 1 - pres.paused, !.step = 0]
    /\ UNCHANGED <<q, cons, gh, is, ctype, fq, d, ui, hist>>

\* stream_component_close up to SDL_WaitThread in decoder_abort
CloseAbort ==
    /\ ui = "open"
    /\ EventLoopFree
    /\ hist.reopens < MaxReopens
    /\ q' = packet_queue_abort(q)
    /\ ui' = "closing"
    /\ hist' = [hist EXCEPT !.reopens = @ + 1]
    /\ UNCHANGED <<cons, gh, is, ctype, fq, d, pres>>

\* the decoder thread has returned: the rest of decoder_abort
CloseJoin ==
    /\ ui = "closing"
    /\ ~d.alive
    /\ q' = packet_queue_flush(q)
    /\ ui' = IF ctype = "audio" THEN "closedev" ELSE "closed"
    /\ UNCHANGED <<cons, gh, is, ctype, fq, d, pres, hist>>

\* SDL_CloseAudioDevice returns when the callback is not running
CloseAudioDevice ==
    /\ ui = "closedev"
    /\ pres.pc = "idle"
    /\ pres' = [pres EXCEPT !.audio_open = FALSE]
    /\ ui' = "closed"
    /\ UNCHANGED <<q, cons, gh, is, ctype, fq, d, hist>>

\* Reopen with the frame queue initialised anew
Reopen_init ==
    /\ ui = "closed"
    /\ hist.reopens > 0
    /\ q' = packet_queue_start(q)
    /\ d' = stream_component_open(ctype)
    /\ pres' = [pres EXCEPT !.audio_open = (ctype = "audio")]
    /\ ui' = "open"
    /\ fq' = FrameQueueOf(ctype)
    /\ UNCHANGED <<cons, gh, is, ctype, hist>>

\* stream_component_open of the same kind of stream: a new Decoder and
\* decoder thread on the packet queue and frame queue that are there
Reopen ==
    /\ ui = "closed"
    /\ hist.reopens > 0
    /\ q' = packet_queue_start(q)
    /\ d' = stream_component_open(ctype)
    /\ pres' = [pres EXCEPT !.audio_open = (ctype = "audio")]
    /\ ui' = "open"
    /\ UNCHANGED <<cons, gh, is, ctype, fq, hist>>

NextPipe ==
    \/ ReadPut \/ ReadEof \/ ReadSeek
    \/ DecodeReceive \/ DecodeGetPacket \/ DecodeSendPacket
    \/ ThreadSink \/ ThreadQueueFrame
    \/ SubtitlePeekWritable \/ SubtitleReceive
    \/ VRSkipStale \/ VRCheck \/ VRShowLater \/ VRDropLate \/ VRTake \/ VRDisplay
    \/ SubtitleAdvance
    \/ AudioNoFrame \/ AudioSkipStale \/ AudioPlay
    \/ Expose \/ TogglePause
    \/ CloseAbort \/ CloseJoin \/ CloseAudioDevice \/ Reopen

SpecPipe == InitPipe /\ [][NextPipe]_vars

(***************************************************************************)
(* SpecPending: the video component with a codec that may refuse a packet  *)
(***************************************************************************)
InitPending == InitPipe /\ ctype = "video"

NextPending ==
    \/ ReadPut \/ ReadEof \/ ReadSeek
    \/ DecodeReceive \/ DecodeGetPacket \/ DecodeSendPacket \/ DecodeSendRefused
    \/ ThreadSink \/ ThreadQueueFrame

SpecPending == InitPending /\ [][NextPending]_vars

(***************************************************************************)
(* Clocks                                                                  *)
(* A double is an integer number of ticks, or NAN.  The speed of a clock   *)
(* is in units of 0.0001.  What a clock's queue_serial points at is handed *)
(* to the operators as queue_serial, and the value av_gettime_relative     *)
(* gives as time.                                                          *)
(***************************************************************************)
NAN == -2147483647

isnan(x) == x = NAN

fabs(x) == IF x < 0 THEN 0 - x ELSE x

\* sum and difference of doubles
fadd(a, b) == IF isnan(a) \/ isnan(b) THEN NAN ELSE a + b

fsub(a, b) == IF isnan(a) \/ isnan(b) THEN NAN ELSE a - b

\* the speed 1.0
SpeedOne == 10000

\* get_clock that does not look at the serial
get_clock_anyserial(c, queue_serial, time) ==
    IF c.paused # 0
    THEN c.pts
    ELSE fsub(fadd(c.pts_drift, time),
              ((time - c.last_updated) * (SpeedOne - c.speed)) \div SpeedOne)

get_clock(c, queue_serial, time) ==
    IF queue_serial # c.serial
    THEN NAN
    ELSE IF c.paused # 0
         THEN c.pts
         ELSE fsub(fadd(c.pts_drift, time),
                   ((time - c.last_updated) * (SpeedOne - c.speed)) \div SpeedOne)

set_clock_at(c, pts, serial, time) ==
    [c EXCEPT !.pts = pts,
              !.last_updated = time,
              !.pts_drift = fsub(pts, time),
              !.serial = serial]

set_clock(c, pts, serial, time) == set_clock_at(c, pts, serial, time)

set_clock_speed(c, queue_serial, speed, time) ==
    [set_clock(c, get_clock(c, queue_serial, time), c.serial, time) EXCEPT !.speed = speed]

init_clock(time) ==
    set_clock([pts |-> 0, pts_drift |-> 0, last_updated |-> 0, serial |-> 0,
               speed |-> SpeedOne, paused |-> 0],
              NAN, -1, time)

\* nosync is AV_NOSYNC_THRESHOLD in ticks
sync_clock_to_slave(c, queue_serial, slave, slave_queue_serial, time, nosync) ==
    LET clock == get_clock(c, queue_serial, time)
        slave_clock == get_clock(slave, slave_queue_serial, time)
    IN IF ~isnan(slave_clock) /\ (isnan(clock) \/ fabs(clock - slave_clock) > nosync)
       THEN set_clock(c, slave_clock, slave.serial, time)
       ELSE c

(***************************************************************************)
(* read_thread (ffplay)                                                    *)
(* In SpecRead, SpecReadFull and SpecReadHuge the variable is holds the    *)
(* fields of the VideoState that read_thread uses, the options loop,       *)
(* autoexit and infinite_buffer, and read_thread's position (pc) and ret.  *)
(* The streams have no attached picture.  Of a decoder and its frame       *)
(* queue is holds what read_thread reads: finished, and the number of      *)
(* frames still to present.                                                *)
(***************************************************************************)
StreamNames == {"audio", "video", "subtitle"}

\* ic->streams[..]->index of the three streams; any other index is a stream
\* the player does not play
StreamIndex(s) == IF s = "audio" THEN 0 ELSE IF s = "video" THEN 1 ELSE 2

stream_index(vs, s) ==
    IF s = "audio" THEN vs.audio_stream
    ELSE IF s = "video" THEN vs.video_stream ELSE vs.subtitle_stream

QueueOf(vs, s) ==
    IF s = "audio" THEN vs.audioq
    ELSE IF s = "video" THEN vs.videoq ELSE vs.subtitleq

WithQueue(vs, s, nq) ==
    IF s = "audio" THEN [vs EXCEPT !.audioq = nq]
    ELSE IF s = "video" THEN [vs EXCEPT !.videoq = nq]
    ELSE [vs EXCEPT !.subtitleq = nq]

\* stream_has_enough_packets that asks for a duration in every case
stream_has_enough_packets_needs_duration(stream_id, queue, tb, attached) ==
    \/ stream_id < 0
    \/ queue.abort_request = 1
    \/ attached
    \/ /\ queue.nb_packets > MIN_FRAMES
       /\ queue.duration * tb.num > tb.den

\* attached is st->disposition & AV_DISPOSITION_ATTACHED_PIC;
\* av_q2d(st->time_base) * queue->duration > 1.0 is duration * num > den
stream_has_enough_packets(stream_id, queue, tb, attached) ==
    \/ stream_id < 0
    \/ queue.abort_request = 1
    \/ attached
    \/ /\ queue.nb_packets > MIN_FRAMES
       /\ (queue.duration = 0 \/ queue.duration * tb.num > tb.den)

\* the condition under which read_thread waits instead of reading
QueuesAreFull(vs) ==
    /\ vs.infinite_buffer < 1
    /\ \/ vs.audioq.size + vs.videoq.size + vs.subtitleq.size > MAX_QUEUE_SIZE
       \/ /\ stream_has_enough_packets(vs.audio_stream, vs.audioq, vs.time_base, FALSE)
          /\ stream_has_enough_packets(vs.video_stream, vs.videoq, vs.time_base,
                                       vs.attached_pic)
          /\ stream_has_enough_packets(vs.subtitle_stream, vs.subtitleq, vs.time_base, FALSE)

\* the completion test without the test of paused
PlayedToEnd_paused(vs) ==
    /\ \/ vs.audio_stream < 0
       \/ vs.auddec.finished = vs.audioq.serial /\ vs.sampq_nb = 0
    /\ \/ vs.video_stream < 0
       \/ vs.viddec.finished = vs.videoq.serial /\ vs.pictq_nb = 0

\* the condition under which read_thread takes the input as played to its end
PlayedToEnd(vs) ==
    /\ vs.paused = 0
    /\ \/ vs.audio_stream < 0
       \/ vs.auddec.finished = vs.audioq.serial /\ vs.sampq_nb = 0
    /\ \/ vs.video_stream < 0
       \/ vs.viddec.finished = vs.videoq.serial /\ vs.pictq_nb = 0

\* a test of loop that seeks once more than it should
loop_again_once_more(loop) ==
    IF loop = 0 THEN [again |-> TRUE, loop |-> 0]
    ELSE [again |-> TRUE, loop |-> loop - 1]

\* loop != 1 && (!loop || --loop): [again, loop]
loop_again(loop) ==
    IF loop = 1 THEN [again |-> FALSE, loop |-> loop]
    ELSE IF loop = 0 THEN [again |-> TRUE, loop |-> loop]
    ELSE [again |-> (loop - 1 # 0), loop |-> loop - 1]

\* flags & ~bit and flags | bit, for a flag of one bit
ClearFlag(flags, bit) == IF (flags \div bit) % 2 = 1 THEN flags - bit ELSE flags

SetFlag(flags, bit) == IF (flags \div bit) % 2 = 1 THEN flags ELSE flags + bit

HasFlag(flags, bit) == (flags \div bit) % 2 = 1

\* stream_seek that takes the request whether or not one is pending
stream_seek_always(vs, pos, rel, by_bytes) ==
    [vs EXCEPT !.seek_pos   = pos,
               !.seek_rel   = rel,
               !.seek_flags = IF by_bytes # 0
                              THEN SetFlag(ClearFlag(@, AVSEEK_FLAG_BYTE), AVSEEK_FLAG_BYTE)
                              ELSE ClearFlag(@, AVSEEK_FLAG_BYTE),
               !.seek_req   = 1]

stream_seek(vs, pos, rel, by_bytes) ==
    IF vs.seek_req = 0
    THEN [vs EXCEPT !.seek_pos   = pos,
                    !.seek_rel   = rel,
                    !.seek_flags = IF by_bytes # 0
                                   THEN SetFlag(ClearFlag(@, AVSEEK_FLAG_BYTE), AVSEEK_FLAG_BYTE)
                                   ELSE ClearFlag(@, AVSEEK_FLAG_BYTE),
                    !.seek_req   = 1]
    ELSE vs

stream_toggle_pause(vs) == [vs EXCEPT !.paused = 1 - vs.paused]

toggle_pause(vs) == [stream_toggle_pause(vs) EXCEPT !.step = 0]

step_to_next_frame(vs) ==
    [(IF vs.paused = 1 THEN stream_toggle_pause(vs) ELSE vs) EXCEPT !.step = 1]

\* a seek that flushes the audio queue alone
flush_open_queues_audio_only(vs) ==
    [vs EXCEPT !.audioq = IF vs.audio_stream >= 0 THEN packet_queue_flush(@) ELSE @]

\* the three packet_queue_flush calls of a seek that succeeded
flush_open_queues(vs) ==
    [vs EXCEPT !.audioq    = IF vs.audio_stream >= 0 THEN packet_queue_flush(@) ELSE @,
               !.subtitleq = IF vs.subtitle_stream >= 0 THEN packet_queue_flush(@) ELSE @,
               !.videoq    = IF vs.video_stream >= 0 THEN packet_queue_flush(@) ELSE @]

\* what follows avformat_seek_file whatever it returned
seek_file_done_flush(vs, ret) ==
    [flush_open_queues(vs) EXCEPT
       !.extclk = set_clock(@, IF HasFlag(vs.seek_flags, AVSEEK_FLAG_BYTE)
                               THEN NAN
                               ELSE vs.seek_pos \div AV_TIME_BASE,
                            0, 0)]

\* what follows avformat_seek_file in read_thread: if it succeeded the
\* queues of the open streams are flushed and the external clock is set, to
\* NAN after a seek by bytes and to the target in seconds otherwise (a tick
\* of this clock is a second, and av_gettime_relative is not followed)
seek_file_done(vs, ret) ==
    IF ret < 0
    THEN vs
    ELSE [flush_open_queues(vs) EXCEPT
            !.extclk = set_clock(@, IF HasFlag(vs.seek_flags, AVSEEK_FLAG_BYTE)
                                    THEN NAN
                                    ELSE vs.seek_pos \div AV_TIME_BASE,
                                 0, 0)]

\* the three packet_queue_put_nullpacket calls at the end of the input
put_nullpackets(vs) ==
    LET np == [id |-> 0, size |-> NullPacket.size, duration |-> NullPacket.duration]
    IN [vs EXCEPT
          !.videoq    = IF vs.video_stream >= 0 THEN packet_queue_put(@, np).q ELSE @,
          !.audioq    = IF vs.audio_stream >= 0 THEN packet_queue_put(@, np).q ELSE @,
          !.subtitleq = IF vs.subtitle_stream >= 0 THEN packet_queue_put(@, np).q ELSE @]

\* queue_attachments_req: the attached picture of the video stream, if it
\* has one, is put into the video queue, and a null packet after it
queue_attachments(vs) ==
    IF vs.queue_attachments_req = 0 THEN vs
    ELSE LET pic == [id |-> -1, size |-> NoDurationPacket.size,
                     duration |-> NoDurationPacket.duration]
             np == [id |-> 0, size |-> NullPacket.size, duration |-> NullPacket.duration]
         IN [vs EXCEPT
               !.videoq = IF vs.video_stream >= 0 /\ vs.attached_pic
                          THEN packet_queue_put(packet_queue_put(@, pic).q, np).q
                          ELSE @,
               !.queue_attachments_req = 0]

\* the Decoder fields of a stream as far as read_thread is concerned
DecInit == [pkt_serial |-> -1, finished |-> 0]

\* the VideoState when read_thread enters its loop: the queues of the open
\* streams were started by stream_component_open
VideoStateOf(astream, vstream, sstream, aq, vq, sq, lp, ax, ib, den, pic) ==
    [pc           |-> "top",
     ret          |-> 0,
     pb_error     |-> 0,
     quit_event   |-> FALSE,
     abort_request |-> 0,
     paused       |-> 0,
     step         |-> 0,
     seek_req     |-> 0,
     seek_pos     |-> 0,
     seek_rel     |-> 0,
     seek_flags   |-> 0,
     extclk       |-> init_clock(0),
     eof          |-> 0,
     queue_attachments_req |-> IF vstream >= 0 THEN 1 ELSE 0,
     attached_pic |-> pic,
     audio_stream |-> astream,
     video_stream |-> vstream,
     subtitle_stream |-> sstream,
     audioq       |-> aq,
     videoq       |-> vq,
     subtitleq    |-> sq,
     auddec       |-> DecInit,
     viddec       |-> DecInit,
     subdec       |-> DecInit,
     sampq_nb     |-> 0,
     pictq_nb     |-> 0,
     subpq_nb     |-> 0,
     time_base    |-> [num |-> 1, den |-> den],
     loop         |-> lp,
     autoexit     |-> ax,
     infinite_buffer |-> ib]

ReadHistInit(lp, max_reads) ==
    [reads       |-> 0,        \* packets av_read_frame has given
     max_reads   |-> max_reads,\* packets the input holds
     user_seeks  |-> 0,        \* seeks asked for by the user
     max_seeks   |-> MaxUserSeeks, \* seeks the user asks for
     dropped     |-> 0,        \* of those, the ones asked for while one was pending
     served      |-> 0,        \* calls of avformat_seek_file for a seek request
     asked       |-> [pos |-> 0, rel |-> 0, by_bytes |-> 0],
                               \* the last seek the user asked for
     loop_seeks  |-> 0,        \* seeks to the start read_thread has issued
     completions |-> 0,        \* times the input was played to its end
     at_end      |-> FALSE,    \* played to its end since the last seek served
     loop0       |-> lp,       \* the loop option as given
     put         |-> [stream |-> "none", ret |-> 0, aborted |-> 0]]
                               \* the packet_queue_put of the last read

\* the variables that belong to one stream component
NoPipe ==
    /\ q = << >>
    /\ cons = << >>
    /\ gh = << >>
    /\ ctype = "none"
    /\ fq = << >>
    /\ d = << >>
    /\ pres = << >>
    /\ ui = "none"

OpenQueue(open) == IF open THEN packet_queue_start(packet_queue_init) ELSE packet_queue_init

\* the streams the player has open: audio and video; video and subtitles
StreamConfigs ==
    {[a |-> TRUE, v |-> TRUE, s |-> FALSE],
     [a |-> FALSE, v |-> TRUE, s |-> TRUE]}

\* the streams the player has open in SpecReadLoop: audio and video; video
LoopStreamConfigs ==
    {[a |-> TRUE, v |-> TRUE, s |-> FALSE],
     [a |-> FALSE, v |-> TRUE, s |-> FALSE]}

\* the VideoState with the streams of c open and empty queues
OpenedWith(c, lp, ax, ib) ==
    VideoStateOf(IF c.a THEN StreamIndex("audio") ELSE -1,
                 IF c.v THEN StreamIndex("video") ELSE -1,
                 IF c.s THEN StreamIndex("subtitle") ELSE -1,
                 OpenQueue(c.a), OpenQueue(c.v), OpenQueue(c.s),
                 lp, ax, ib, TimeBaseDenFast, FALSE)

InitRead ==
    /\ NoPipe
    /\ \E c \in StreamConfigs, ax \in {0, 1} :
          /\ is = OpenedWith(c, 1, ax, -1)
          /\ hist = ReadHistInit(1, MaxReads)

\* top of the loop: abort_request, the seek request, queue_attachments_req
ReaderSeek ==
    /\ is.pc = "top"
    /\ IF is.abort_request = 1
       THEN /\ is' = [is EXCEPT !.pc = "end", !.ret = 0]
            /\ hist' = hist
       ELSE IF is.seek_req = 1
       THEN /\ \E ret \in {0, -1} :
                 LET vs1 == seek_file_done(is, ret)
                     vs2 == [vs1 EXCEPT !.ret = ret,
                                        !.seek_req = 0,
                                        !.queue_attachments_req = 1,
                                        !.eof = 0]
                     vs3 == IF vs2.paused = 1 THEN step_to_next_frame(vs2) ELSE vs2
                 IN is' = [queue_attachments(vs3) EXCEPT !.pc = "full"]
            /\ hist' = [hist EXCEPT !.at_end = FALSE, !.served = @ + 1]
       ELSE /\ is' = [queue_attachments(is) EXCEPT !.pc = "full"]
            /\ hist' = hist
    /\ UNCHANGED <<q, cons, gh, ctype, fq, d, pres, ui>>

\* the queues are full: SDL_CondWaitTimeout(.., 10) and continue
ReaderFull ==
    /\ is.pc = "full"
    /\ is' = [is EXCEPT !.pc = IF QueuesAreFull(is) THEN "top" ELSE "loop"]
    /\ UNCHANGED <<q, cons, gh, ctype, fq, d, pres, ui, hist>>

\* the input was played to its end: loop, or exit, or go on
ReaderLoop ==
    /\ is.pc = "loop"
    /\ IF PlayedToEnd(is)
       THEN /\ hist.at_end \/ hist.completions < MaxCompletions
            /\ LET r == loop_again(is.loop)
                   h == [hist EXCEPT !.at_end = TRUE,
                                     !.completions = IF hist.at_end THEN @ ELSE @ + 1]
               IN IF r.again
                  THEN /\ is' = [stream_seek(is, 0, 0, 0) EXCEPT !.loop = r.loop, !.pc = "read"]
                       /\ hist' = [h EXCEPT !.loop_seeks = IF is.seek_req = 0
                                                           THEN @ + 1 ELSE @]
                  ELSE /\ is' = IF is.autoexit # 0
                                THEN [is EXCEPT !.loop = r.loop, !.ret = AVERROR_EOF,
                                                !.quit_event = TRUE, !.pc = "end"]
                                ELSE [is EXCEPT !.loop = r.loop, !.pc = "read"]
                       /\ hist' = h
       ELSE /\ is' = [is EXCEPT !.pc = "read"]
            /\ hist' = hist
    /\ UNCHANGED <<q, cons, gh, ctype, fq, d, pres, ui>>

\* av_read_frame gave a packet of the stream with index si
ReadPacket(si, kind) ==
    /\ hist.reads < hist.max_reads
    /\ LET pkt == [id |-> hist.reads + 1, size |-> kind.size, duration |-> kind.duration]
           to == IF si = is.audio_stream THEN "audio"
                 ELSE IF si = is.video_stream THEN "video"
                 ELSE IF si = is.subtitle_stream THEN "subtitle"
                 ELSE "none"
           r == IF to = "none" THEN [ret |-> 0, q |-> << >>]
                ELSE packet_queue_put(QueueOf(is, to), pkt)
           vs1 == [is EXCEPT !.ret = 0, !.eof = 0, !.pc = "top"]
       IN /\ is' = IF to = "none" THEN vs1 ELSE WithQueue(vs1, to, r.q)
          /\ hist' = [hist EXCEPT
                        !.reads = @ + 1,
                        !.put = [stream  |-> to,
                                 ret     |-> r.ret,
                                 aborted |-> IF to = "none" THEN 0
                                             ELSE QueueOf(is, to).abort_request]]

\* a read_thread that waits and reads again after every failure
ReadFailure_retry(ret, feof, err) ==
    LET vs1 == IF (ret = AVERROR_EOF \/ feof) /\ is.eof = 0
               THEN [put_nullpackets(is) EXCEPT !.eof = 1]
               ELSE is
    IN /\ is' = [vs1 EXCEPT !.ret = ret, !.pb_error = err, !.pc = "top"]
       /\ hist' = [hist EXCEPT !.put = [stream |-> "none", ret |-> 0, aborted |-> 0]]

\* av_read_frame failed: ret < 0; feof is avio_feof(ic->pb), err is
\* ic->pb->error
ReadFailure(ret, feof, err) ==
    LET vs1 == IF (ret = AVERROR_EOF \/ feof) /\ is.eof = 0
               THEN [put_nullpackets(is) EXCEPT !.eof = 1]
               ELSE is
    IN /\ is' = IF err # 0
                THEN IF is.autoexit # 0
                     THEN [vs1 EXCEPT !.ret = ret, !.pb_error = err,
                                      !.quit_event = TRUE, !.pc = "end"]
                     ELSE [vs1 EXCEPT !.ret = 0, !.pb_error = err, !.pc = "end"]
                ELSE [vs1 EXCEPT !.ret = ret, !.pb_error = 0, !.pc = "top"]
       /\ hist' = [hist EXCEPT !.put = [stream |-> "none", ret |-> 0, aborted |-> 0]]

\* av_read_frame and what follows it in the loop
ReaderRead ==
    /\ is.pc = "read"
    /\ \/ \E si \in 0..3, kind \in ReadKinds : ReadPacket(si, kind)
       \/ ReadFailure(AVERROR_EOF, TRUE, 0)
       \/ ReadFailure(AVERROR_EAGAIN, FALSE, 0)
       \/ \E feof \in BOOLEAN : ReadFailure(AVERROR_EIO, feof, AVERROR_EIO)
    /\ UNCHANGED <<q, cons, gh, ctype, fq, d, pres, ui>>

(* the other threads, as far as read_thread sees them *)
\* what the seek keys ask for: ten seconds forward by time, and a position
\* in bytes with a negative increment
SeekRequests ==
    {[pos |-> 10 * AV_TIME_BASE, rel |-> 10 * AV_TIME_BASE, by_bytes |-> 0],
     [pos |-> BigPacketSize, rel |-> 0 - BigPacketSize, by_bytes |-> 1]}

\* event loop: a seek key
UserSeek ==
    /\ hist.user_seeks < hist.max_seeks
    /\ is.pc # "end"
    /\ \E r \in SeekRequests :
          /\ is' = stream_seek(is, r.pos, r.rel, r.by_bytes)
          /\ hist' = [hist EXCEPT !.user_seeks = @ + 1,
                                  !.dropped = IF is.seek_req = 1 THEN @ + 1 ELSE @,
                                  !.asked = r]
    /\ UNCHANGED <<q, cons, gh, ctype, fq, d, pres, ui>>

\* event loop: the pause key
UserPause ==
    /\ is.pc # "end"
    /\ is' = toggle_pause(is)
    /\ UNCHANGED <<q, cons, gh, ctype, fq, d, pres, ui, hist>>

\* what a decoder does with the packet it got, as far as read_thread sees it:
\* a new serial clears finished; the null packet of the queue's serial ends in
\* finished = pkt_serial once the codec is drained
DecAfterGet(dec, pkt1, queue) ==
    [pkt_serial |-> pkt1.serial,
     finished   |-> IF pkt1.serial = queue.serial /\ pkt1.pkt.id = 0
                    THEN pkt1.serial
                    ELSE IF pkt1.serial # dec.pkt_serial THEN 0 ELSE dec.finished]

\* the decoder thread of stream s gets a packet and decodes it
DecGet(s) ==
    /\ stream_index(is, s) >= 0
    /\ is.pc # "end"
    /\ LET r == packet_queue_get(QueueOf(is, s), 1)
           vs1 == WithQueue(is, s, r.q)
           fresh == r.pkt1.serial = r.q.serial /\ r.pkt1.pkt.id # 0
       IN /\ ~r.wait /\ r.ret = 1
          /\ is' = IF s = "audio"
                   THEN [vs1 EXCEPT !.auddec = DecAfterGet(@, r.pkt1, r.q),
                                    !.sampq_nb = IF fresh THEN 1 ELSE @]
                   ELSE IF s = "video"
                   THEN [vs1 EXCEPT !.viddec = DecAfterGet(@, r.pkt1, r.q),
                                    !.pictq_nb = IF fresh THEN 1 ELSE @]
                   ELSE [vs1 EXCEPT !.subdec = DecAfterGet(@, r.pkt1, r.q),
                                    !.subpq_nb = IF fresh THEN 1 ELSE @]
    /\ UNCHANGED <<q, cons, gh, ctype, fq, d, pres, ui, hist>>

\* the audio callback or video_refresh has passed the frames of the stream
\* (video_refresh also retires the subtitles)
Present(s) ==
    /\ is.pc # "end"
    /\ \/ s = "audio" /\ is.sampq_nb > 0 /\ is' = [is EXCEPT !.sampq_nb = 0]
       \/ s = "video" /\ is.pictq_nb > 0 /\ is' = [is EXCEPT !.pictq_nb = 0]
       \/ s = "subtitle" /\ is.subpq_nb > 0 /\ is' = [is EXCEPT !.subpq_nb = 0]
    /\ UNCHANGED <<q, cons, gh, ctype, fq, d, pres, ui, hist>>

NextRead ==
    \/ ReaderSeek \/ ReaderFull \/ ReaderLoop \/ ReaderRead
    \/ UserSeek \/ UserPause
    \/ \E s \in StreamNames : DecGet(s)
    \/ \E s \in StreamNames : Present(s)

SpecRead == InitRead /\ [][NextRead]_vars

(* SpecReadLoop: the loop option, and no seek by the user *)
InitReadLoop ==
    /\ NoPipe
    /\ \E c \in LoopStreamConfigs, lp \in 0..MaxLoop, ax \in {0, 1} :
          /\ is = OpenedWith(c, lp, ax, -1)
          /\ hist = ReadHistInit(lp, MaxReads)

NextReadLoop ==
    \/ ReaderSeek \/ ReaderFull \/ ReaderLoop \/ ReaderRead
    \/ UserPause
    \/ \E s \in StreamNames : DecGet(s)
    \/ \E s \in StreamNames : Present(s)

SpecReadLoop == InitReadLoop /\ [][NextReadLoop]_vars

(* SpecSeek: seek keys pressed while read_thread runs: audio and video,   *)
(* with or without an attached picture, no loop                            *)
InitSeek ==
    /\ NoPipe
    /\ \E pic \in BOOLEAN :
          is = VideoStateOf(StreamIndex("audio"), StreamIndex("video"), -1,
                            OpenQueue(TRUE), OpenQueue(TRUE), OpenQueue(FALSE),
                            1, 0, -1, TimeBaseDenFast, pic)
    /\ hist = [ReadHistInit(1, MaxReads) EXCEPT !.max_seeks = MaxSeekKeys]

NextSeek ==
    \/ ReaderSeek \/ ReaderFull \/ ReaderLoop \/ ReaderRead
    \/ UserSeek \/ UserPause

SpecSeek == InitSeek /\ [][NextSeek]_vars

(* SpecReadFull: read_thread in front of queues that hold many packets or   *)
(* many bytes.  What the decoder threads have left in the queues is in the *)
(* choice of the initial state.                                            *)
RECURSIVE Preloaded(_, _)
\* a started queue after n packets of one kind were put into it
Preloaded(n, kind) ==
    IF n = 0 THEN packet_queue_start(packet_queue_init)
    ELSE packet_queue_put(Preloaded(n - 1, kind),
                          [id |-> n, size |-> kind.size, duration |-> kind.duration]).q

\* what a queue holds when read_thread looks at it
PreloadChoices ==
    {[n |-> 0, kind |-> DataPacket],
     [n |-> MIN_FRAMES - 1, kind |-> DataPacket],
     [n |-> MIN_FRAMES, kind |-> DataPacket],
     [n |-> MIN_FRAMES + 1, kind |-> DataPacket],
     [n |-> MIN_FRAMES + 1, kind |-> NoDurationPacket],
     [n |-> 2, kind |-> BigPacket]}

QueueWith(open, c) == IF open THEN Preloaded(c.n, c.kind) ELSE packet_queue_init

InitReadFull ==
    /\ NoPipe
    /\ \E s \in BOOLEAN, pa \in PreloadChoices, pv \in PreloadChoices,
          ps \in PreloadChoices, ib \in {-1, 1}, pic \in BOOLEAN,
          den \in {TimeBaseDenFast, TimeBaseDenSlow} :
          /\ ~s => ps.n = 0
          /\ is = VideoStateOf(StreamIndex("audio"), StreamIndex("video"),
                               IF s THEN StreamIndex("subtitle") ELSE -1,
                               QueueWith(TRUE, pa), QueueWith(TRUE, pv), QueueWith(s, ps),
                               1, 0, ib, den, pic)
          /\ hist = ReadHistInit(1, MaxReads)

NextReadFull == ReaderSeek \/ ReaderFull \/ ReaderLoop \/ ReaderRead

SpecReadFull == InitReadFull /\ [][NextReadFull]_vars

(* SpecReadHuge: read_thread in front of an audio queue whose ring has      *)
(* grown to auto_grow_limit elements                                       *)
\* the queue after auto_grow_limit packets were put into it and the decoder
\* has got the first of them
HugeQueue ==
    LET L == packet_queue_init.pkt_list.auto_grow_limit
    IN [pkt_list      |-> [buffer          |-> [i \in 0..(L - 1) |->
                                                   [pkt    |-> [id       |-> i + 1,
                                                                size     |-> DataPacket.size,
                                                                duration |-> DataPacket.duration],
                                                    serial |-> 1]],
                           nb_elems        |-> L,
                           elem_size       |-> SizeofMyAVPacketList,
                           offset_r        |-> 1,
                           offset_w        |-> 0,
                           is_empty        |-> 0,
                           flags           |-> AV_FIFO_FLAG_AUTO_GROW,
                           auto_grow_limit |-> L],
        nb_packets    |-> L - 1,
        size          |-> (L - 1) * (DataPacket.size + SizeofMyAVPacketList),
        duration      |-> (L - 1) * DataPacket.duration,
        abort_request |-> 0,
        serial        |-> 1]

InitReadHuge ==
    /\ NoPipe
    /\ \E ib \in {-1, 1} :
          /\ is = VideoStateOf(StreamIndex("audio"), StreamIndex("video"), -1,
                               HugeQueue, OpenQueue(TRUE), OpenQueue(FALSE),
                               1, 0, ib, TimeBaseDenFast, FALSE)
          /\ hist = ReadHistInit(1, MaxHugeReads)

SpecReadHuge == InitReadHuge /\ [][NextReadFull]_vars

(***************************************************************************)
(* SpecAudio: sdl_audio_callback and audio_decode_frame in front of the    *)
(* sample queue                                                            *)
(* The variable is holds the fields of the VideoState the callback uses,   *)
(* its position pc and its locals; fq is is->sampq and q is is->audioq.    *)
(* One tick of time is the time the device plays one byte in, so that      *)
(* bytes / bytes_per_sec is the number of bytes in ticks.                  *)
(***************************************************************************)
\* the pause state and the three clocks after stream_toggle_pause
stream_toggle_pause_clocks(st, videoq_serial, time) ==
    LET v0 == IF st.read_pause_return # AVERROR_ENOSYS
              THEN [st.vidclk EXCEPT !.paused = 0] ELSE st.vidclk
        v  == IF st.paused # 0
              THEN set_clock(v0, get_clock(v0, videoq_serial, time), v0.serial, time)
              ELSE st.vidclk
        e  == set_clock(st.extclk, get_clock(st.extclk, st.extclk.serial, time),
                        st.extclk.serial, time)
        p  == IF st.paused # 0 THEN 0 ELSE 1
    IN [st EXCEPT !.paused = p,
                  !.audclk = [@ EXCEPT !.paused = p],
                  !.vidclk = [v EXCEPT !.paused = p],
                  !.extclk = [e EXCEPT !.paused = p]]

\* the block of silence the callback plays when audio_decode_frame fails
SilenceSize(frame_size) == (SDL_AUDIO_MIN_BUFFER_SIZE \div frame_size) * frame_size

\* len1 without the test against len
callback_len1_all(st) == st.audio_buf_size - st.audio_buf_index

\* len1 of one round of the callback's loop
callback_len1(st) == Min(st.audio_buf_size - st.audio_buf_index, st.len)

\* the rest of a round: len1 bytes of audio_buf or of zeros go to stream
callback_copy(st) ==
    LET len1 == callback_len1(st)
    IN [st EXCEPT !.len = @ - len1,
                  !.written = @ + len1,
                  !.audio_buf_index = @ + len1]

\* audio_size < 0 that moves the audio clock on by the silence
callback_silence_advances(st) ==
    [st EXCEPT !.audio_buf = 0,
               !.audio_buf_size = SilenceSize(st.frame_size),
               !.audio_buf_index = 0,
               !.audio_clock = fadd(@, SilenceSize(st.frame_size))]

\* audio_size < 0
callback_silence(st) ==
    [st EXCEPT !.audio_buf = 0,
               !.audio_buf_size = SilenceSize(st.frame_size),
               !.audio_buf_index = 0]

\* audio_size >= 0: audio_decode_frame set audio_buf, audio_clock and
\* audio_clock_serial from the frame af
callback_filled(st, audio_size, af_pts, af_duration, af_serial) ==
    [st EXCEPT !.audio_buf = 1,
               !.audio_buf_size = audio_size,
               !.audio_buf_index = 0,
               !.audio_clock = IF isnan(af_pts) THEN NAN ELSE af_pts + af_duration,
               !.audio_clock_serial = af_serial]

\* a callback that sets the video clock as well
callback_tail_sets_vidclk(st, audioq_serial) ==
    LET s1 == [st EXCEPT !.audio_write_buf_size = st.audio_buf_size - st.audio_buf_index]
        a  == set_clock_at(s1.audclk,
                           s1.audio_clock
                               - (2 * s1.audio_hw_buf_size + s1.audio_write_buf_size),
                           s1.audio_clock_serial, s1.audio_callback_time)
    IN IF isnan(s1.audio_clock)
       THEN s1
       ELSE [s1 EXCEPT !.audclk = a, !.vidclk = a]

\* the callback after its loop
callback_tail(st, audioq_serial) ==
    LET s1 == [st EXCEPT !.audio_write_buf_size = st.audio_buf_size - st.audio_buf_index]
        a  == set_clock_at(s1.audclk,
                           s1.audio_clock
                               - (2 * s1.audio_hw_buf_size + s1.audio_write_buf_size),
                           s1.audio_clock_serial, s1.audio_callback_time)
        e  == sync_clock_to_slave(s1.extclk, s1.extclk.serial, a, audioq_serial,
                                  s1.now, AV_NOSYNC_THRESHOLD * s1.bytes_per_sec)
    IN IF isnan(s1.audio_clock)
       THEN s1
       ELSE [s1 EXCEPT !.audclk = a, !.extclk = e]

\* the lengths SDL asks for, the sizes the resampler gives, the sizes of a
\* sample of all channels
AudioLens == {1, MaxAudioLen \div 2, MaxAudioLen}

AudioSizes == {0, MaxAudioSize}

FrameSizes == {4, 12}

AudioStateOf(frame_size) ==
    [pc                   |-> "idle",
     len                  |-> 0,
     asked                |-> 0,
     written              |-> 0,
     audio_buf            |-> 0,
     audio_buf_size       |-> 0,
     audio_buf_index      |-> 0,
     audio_write_buf_size |-> 0,
     audio_hw_buf_size    |-> SDL_AUDIO_MIN_BUFFER_SIZE * frame_size,
     frame_size           |-> frame_size,
     bytes_per_sec        |-> AudioSampleRate * frame_size,
     paused               |-> 0,
     read_pause_return    |-> 0,
     audio_clock          |-> 0,
     audio_clock_serial   |-> -1,
     audio_callback_time  |-> 0,
     now                  |-> 0,
     audclk               |-> init_clock(0),
     vidclk               |-> init_clock(0),
     extclk               |-> init_clock(0)]

InitAudio ==
    /\ ctype = "audio"
    /\ q = packet_queue_start(packet_queue_init)
    /\ fq = FrameQueueOf("audio")
    /\ \E fs \in FrameSizes : is = AudioStateOf(fs)
    /\ hist = [callbacks |-> 0,     \* calls of sdl_audio_callback
               pushed    |-> 0,     \* frames the audio thread pushed
               flushes   |-> 0,     \* flushes of the audio queue
               pauses    |-> 0,     \* calls of stream_toggle_pause
               silences  |-> 0,     \* silence blocks begun in this call
               decoded   |-> 0,     \* frames decoded in this call
               data      |-> FALSE] \* bytes of a frame were played in this call
    /\ cons = << >>
    /\ gh = << >>
    /\ d = << >>
    /\ pres = << >>
    /\ ui = "none"

(* the audio device's thread *)
\* SDL calls sdl_audio_callback(opaque, stream, len)
CbEnter ==
    /\ is.pc = "idle"
    /\ hist.callbacks < MaxCallbacks
    /\ \E len \in AudioLens :
          is' = [is EXCEPT !.pc = "loop", !.len = len, !.asked = len, !.written = 0,
                           !.now = @ + len, !.audio_callback_time = is.now + len]
    /\ hist' = [hist EXCEPT !.callbacks = @ + 1, !.silences = 0, !.decoded = 0,
                            !.data = FALSE]
    /\ UNCHANGED <<q, cons, gh, ctype, fq, d, pres, ui>>

\* a round of the loop that finds bytes left in audio_buf
CbCopy ==
    /\ is.pc = "loop" /\ is.len > 0
    /\ is.audio_buf_index < is.audio_buf_size
    /\ is' = callback_copy(is)
    /\ hist' = [hist EXCEPT !.data = @ \/ is.audio_buf # 0]
    /\ UNCHANGED <<q, cons, gh, ctype, fq, d, pres, ui>>

\* audio_decode_frame returns -1 because the player is paused
CbPaused ==
    /\ is.pc = "loop" /\ is.len > 0
    /\ is.audio_buf_index >= is.audio_buf_size
    /\ is.paused # 0
    /\ is' = callback_copy(callback_silence(is))
    /\ hist' = [hist EXCEPT !.silences = @ + 1]
    /\ UNCHANGED <<q, cons, gh, ctype, fq, d, pres, ui>>

\* audio_decode_frame goes on to its loop over the sample queue
CbCall ==
    /\ is.pc = "loop" /\ is.len > 0
    /\ is.audio_buf_index >= is.audio_buf_size
    /\ is.paused = 0
    /\ is' = [is EXCEPT !.pc = "frame"]
    /\ UNCHANGED <<q, cons, gh, ctype, fq, d, pres, ui, hist>>

\* the callback is in SDL_CondWait inside frame_queue_peek_readable
CbWaits == is.pc = "frame" /\ frame_queue_peek_readable(fq, q).wait

\* frame_queue_peek_readable returns NULL
CbNoFrame ==
    /\ is.pc = "frame"
    /\ LET r == frame_queue_peek_readable(fq, q)
       IN ~r.wait /\ r.vp < 0
    /\ is' = [callback_copy(callback_silence(is)) EXCEPT !.pc = "loop"]
    /\ hist' = [hist EXCEPT !.silences = @ + 1]
    /\ UNCHANGED <<q, cons, gh, ctype, fq, d, pres, ui>>

\* the frame is of another serial than the audio queue
CbSkipStale ==
    /\ is.pc = "frame"
    /\ LET r == frame_queue_peek_readable(fq, q)
       IN /\ ~r.wait /\ r.vp >= 0
          /\ FrameIsStale(fq.queue[r.vp], q)
    /\ fq' = frame_queue_next(fq)
    /\ UNCHANGED <<q, cons, gh, ctype, is, d, pres, ui, hist>>

\* the frame is of the queue's serial: the resampler fails, or gives
\* audio_size bytes
CbDecode ==
    /\ is.pc = "frame"
    /\ LET r == frame_queue_peek_readable(fq, q)
       IN /\ ~r.wait /\ r.vp >= 0
          /\ ~FrameIsStale(fq.queue[r.vp], q)
          /\ \/ /\ is' = [callback_copy(callback_silence(is)) EXCEPT !.pc = "loop"]
                /\ hist' = [hist EXCEPT !.silences = @ + 1]
             \/ /\ \E audio_size \in AudioSizes,
                      af_pts \in {NAN, fq.queue[r.vp].id * MaxAudioSize} :
                      is' = [callback_copy(callback_filled(is, audio_size, af_pts,
                                  MaxAudioSize, fq.queue[r.vp].serial))
                                EXCEPT !.pc = "loop"]
                /\ hist' = [hist EXCEPT !.decoded = @ + 1, !.data = TRUE]
    /\ fq' = frame_queue_next(fq)
    /\ UNCHANGED <<q, cons, gh, ctype, d, pres, ui>>

\* len has reached 0
CbReturn ==
    /\ is.pc = "loop" /\ is.len <= 0
    /\ is' = [callback_tail(is, q.serial) EXCEPT !.pc = "idle"]
    /\ UNCHANGED <<q, cons, gh, ctype, fq, d, pres, ui, hist>>

(* the other threads *)
\* audio_thread queues a frame it made from a packet of the queue's serial
AudioPush ==
    /\ hist.pushed < MaxAudioFrames
    /\ LET r == frame_queue_peek_writable(fq, q)
       IN /\ ~r.wait /\ r.vp >= 0
          /\ fq' = frame_queue_push(
                       [fq EXCEPT !.queue[r.vp] = [id     |-> hist.pushed + 1,
                                                   serial |-> q.serial,
                                                   origin |-> q.serial]])
    /\ hist' = [hist EXCEPT !.pushed = @ + 1]
    /\ UNCHANGED <<q, cons, gh, ctype, is, d, pres, ui>>

\* read_thread serves a seek
AudioFlush ==
    /\ hist.flushes < MaxAudioFlushes
    /\ q.abort_request = 0
    /\ q' = packet_queue_flush(q)
    /\ hist' = [hist EXCEPT !.flushes = @ + 1]
    /\ UNCHANGED <<cons, gh, ctype, fq, is, d, pres, ui>>

\* the event loop or read_thread calls stream_toggle_pause
AudioTogglePause ==
    /\ hist.pauses < MaxAudioPauses
    /\ is' = stream_toggle_pause_clocks(is, 0, is.now)
    /\ hist' = [hist EXCEPT !.pauses = @ + 1]
    /\ UNCHANGED <<q, cons, gh, ctype, fq, d, pres, ui>>

\* stream_component_close: decoder_abort
AudioAbort ==
    /\ q.abort_request = 0
    /\ q' = packet_queue_abort(q)
    /\ UNCHANGED <<cons, gh, ctype, fq, is, d, pres, ui, hist>>

CallbackStep ==
    CbCopy \/ CbPaused \/ CbCall \/ CbNoFrame \/ CbSkipStale \/ CbDecode \/ CbReturn

NextAudio ==
    \/ CbEnter \/ CbCopy \/ CbPaused \/ CbCall \/ CbNoFrame \/ CbSkipStale
    \/ CbDecode \/ CbReturn
    \/ AudioPush \/ AudioFlush \/ AudioTogglePause \/ AudioAbort

\* the device's thread runs whenever it can
SpecAudio == InitAudio /\ [][NextAudio]_vars /\ WF_vars(CallbackStep)

(***************************************************************************)
(* SpecClock: the three clocks and the tasks that read and write them      *)
(* The variable is holds the VideoState's clocks, the options and what the *)
(* clocks are set from; the serials and fill levels of the audio and video *)
(* packet queues are fields of is.  hist.task names the task that took the *)
(* last step and hist.wrote the clocks the step changed.                   *)
(***************************************************************************)
\* a master clock choice that falls back to the external clock alone
get_master_sync_type_ext(st) ==
    IF st.av_sync_type = AV_SYNC_VIDEO_MASTER /\ st.video_st # 0
    THEN AV_SYNC_VIDEO_MASTER
    ELSE IF st.av_sync_type = AV_SYNC_AUDIO_MASTER /\ st.audio_st # 0
         THEN AV_SYNC_AUDIO_MASTER
         ELSE AV_SYNC_EXTERNAL_CLOCK

get_master_sync_type(st) ==
    IF st.av_sync_type = AV_SYNC_VIDEO_MASTER
    THEN (IF st.video_st # 0 THEN AV_SYNC_VIDEO_MASTER ELSE AV_SYNC_AUDIO_MASTER)
    ELSE IF st.av_sync_type = AV_SYNC_AUDIO_MASTER
         THEN (IF st.audio_st # 0 THEN AV_SYNC_AUDIO_MASTER ELSE AV_SYNC_EXTERNAL_CLOCK)
         ELSE AV_SYNC_EXTERNAL_CLOCK

get_master_clock(st) ==
    LET m == get_master_sync_type(st)
    IN IF m = AV_SYNC_VIDEO_MASTER THEN get_clock(st.vidclk, st.videoq_serial, st.now)
       ELSE IF m = AV_SYNC_AUDIO_MASTER THEN get_clock(st.audclk, st.audioq_serial, st.now)
       ELSE get_clock(st.extclk, st.extclk.serial, st.now)

\* check_external_clock_speed without FFMAX and FFMIN
check_external_clock_speed_unclamped(st, audio_nb, video_nb, err) ==
    LET e == st.extclk
        set(speed) == [st EXCEPT !.extclk = set_clock_speed(e, e.serial, speed, st.now)]
    IN IF \/ st.video_st # 0 /\ video_nb <= EXTERNAL_CLOCK_MIN_FRAMES
          \/ st.audio_st # 0 /\ audio_nb <= EXTERNAL_CLOCK_MIN_FRAMES
       THEN set(e.speed - EXTERNAL_CLOCK_SPEED_STEP + err)
       ELSE IF /\ st.video_st = 0 \/ video_nb > EXTERNAL_CLOCK_MAX_FRAMES
               /\ st.audio_st = 0 \/ audio_nb > EXTERNAL_CLOCK_MAX_FRAMES
            THEN set(e.speed + EXTERNAL_CLOCK_SPEED_STEP + err)
            ELSE IF e.speed # SpeedOne
                 THEN set(e.speed + err
                          + (IF e.speed < SpeedOne THEN EXTERNAL_CLOCK_SPEED_STEP
                                                   ELSE 0 - EXTERNAL_CLOCK_SPEED_STEP))
                 ELSE st

\* audio_nb, video_nb: nb_packets of the queues; err: the rounding error of
\* the sum
check_external_clock_speed(st, audio_nb, video_nb, err) ==
    LET e == st.extclk
        set(speed) == [st EXCEPT !.extclk = set_clock_speed(e, e.serial, speed, st.now)]
    IN IF \/ st.video_st # 0 /\ video_nb <= EXTERNAL_CLOCK_MIN_FRAMES
          \/ st.audio_st # 0 /\ audio_nb <= EXTERNAL_CLOCK_MIN_FRAMES
       THEN set(Max(EXTERNAL_CLOCK_SPEED_MIN, e.speed - EXTERNAL_CLOCK_SPEED_STEP + err))
       ELSE IF /\ st.video_st = 0 \/ video_nb > EXTERNAL_CLOCK_MAX_FRAMES
               /\ st.audio_st = 0 \/ audio_nb > EXTERNAL_CLOCK_MAX_FRAMES
            THEN set(Min(EXTERNAL_CLOCK_SPEED_MAX, e.speed + EXTERNAL_CLOCK_SPEED_STEP + err))
            ELSE IF e.speed # SpeedOne
                 THEN set(e.speed + err
                          + (IF e.speed < SpeedOne THEN EXTERNAL_CLOCK_SPEED_STEP
                                                   ELSE 0 - EXTERNAL_CLOCK_SPEED_STEP))
                 ELSE st

update_video_pts(st, pts, serial) ==
    LET v == set_clock(st.vidclk, pts, serial, st.now)
    IN [st EXCEPT !.vidclk = v,
                  !.extclk = sync_clock_to_slave(st.extclk, st.extclk.serial, v,
                                 st.videoq_serial, st.now,
                                 AV_NOSYNC_THRESHOLD * st.bytes_per_sec)]

\* a test of the framedrop option with -1 for off and 0 for "when video is
\* not the master"
FrameDropOn_minus_off(st) ==
    st.framedrop > 0
        \/ (st.framedrop = 0 /\ get_master_sync_type(st) # AV_SYNC_VIDEO_MASTER)

\* get_video_frame: the early drop is tried
early_drop_on(st) ==
    st.framedrop > 0
        \/ (st.framedrop # 0 /\ get_master_sync_type(st) # AV_SYNC_VIDEO_MASTER)

\* video_refresh: the late drop is tried
late_drop_on(st) ==
    st.framedrop > 0
        \/ (st.framedrop # 0 /\ get_master_sync_type(st) # AV_SYNC_VIDEO_MASTER)

\* the fill levels a queue is seen at, the pts of frames
FillLevels ==
    {EXTERNAL_CLOCK_MIN_FRAMES, EXTERNAL_CLOCK_MIN_FRAMES + 1,
     EXTERNAL_CLOCK_MAX_FRAMES, EXTERNAL_CLOCK_MAX_FRAMES + 1}

RoundErrs == (0 - RoundErr)..RoundErr

\* a frame 20 seconds into the stream
FramePts(st) == {2 * AV_NOSYNC_THRESHOLD * st.bytes_per_sec}

\* video_refresh as far as the clocks go.  shown: a picture of the video
\* queue's serial is due, of pts vp_pts and serial vp_serial
video_refresh_clocks(st, audio_nb, video_nb, err, shown, vp_pts, vp_serial) ==
    LET s1 == IF /\ st.paused = 0
                 /\ get_master_sync_type(st) = AV_SYNC_EXTERNAL_CLOCK
                 /\ st.realtime # 0
              THEN check_external_clock_speed(st, audio_nb, video_nb, err)
              ELSE st
        s2 == IF shown /\ ~isnan(vp_pts) THEN update_video_pts(s1, vp_pts, vp_serial) ELSE s1
    IN IF shown /\ s2.step # 0 /\ s2.paused = 0
       THEN stream_toggle_pause_clocks(s2, s2.videoq_serial, s2.now)
       ELSE s2

ClockNames == {"audclk", "vidclk", "extclk"}

ClockOf(st, name) ==
    IF name = "audclk" THEN st.audclk ELSE IF name = "vidclk" THEN st.vidclk ELSE st.extclk

\* the clocks that differ between two states
Wrote(st, new) == {c \in ClockNames : ClockOf(st, c) # ClockOf(new, c)}

ClockStateOf(sync, ast, vst, fdrop, rt) ==
    [f \in {"av_sync_type", "audio_st", "video_st", "framedrop", "realtime",
            "audioq_serial", "videoq_serial", "step"} |->
        IF f = "av_sync_type" THEN sync
        ELSE IF f = "audio_st" THEN ast
        ELSE IF f = "video_st" THEN vst
        ELSE IF f = "framedrop" THEN fdrop
        ELSE IF f = "realtime" THEN rt
        ELSE IF f = "audioq_serial" THEN ast
        ELSE IF f = "videoq_serial" THEN vst
        ELSE 0]
    @@ AudioStateOf(1)

ClockHistInit ==
    [task      |-> "main",   \* the task that took the last step
     wrote     |-> {},       \* the clocks the last step changed
     ticks     |-> 0,
     callbacks |-> 0,
     refreshes |-> 0,
     decodes   |-> 0,
     seeks     |-> 0,
     pauses    |-> 0,
     master    |-> -1,       \* what get_master_sync_type last returned
     early     |-> -1,       \* whether get_video_frame last tried the early drop
     late      |-> -1,       \* whether video_refresh last tried the late drop
     fill      |-> <<0, 0>>] \* nb_packets of audioq and videoq at the last tick

\* (audio_st, video_st) of the inputs
ClockStreams == {<<1, 1>>, <<1, 0>>, <<0, 1>>}

InitClock ==
    /\ NoPipe
    /\ \E sync \in {AV_SYNC_AUDIO_MASTER, AV_SYNC_VIDEO_MASTER, AV_SYNC_EXTERNAL_CLOCK},
          st \in ClockStreams, fdrop \in {-1, 0, 1} :
          is = ClockStateOf(sync, st[1], st[2], fdrop, 1)
    /\ hist = ClockHistInit

Step(new, task, h) ==
    /\ is' = new
    /\ hist' = [h EXCEPT !.task = task, !.wrote = Wrote(is, new)]
    /\ UNCHANGED <<q, cons, gh, ctype, fq, d, pres, ui>>

\* time passes
ClkTick ==
    /\ hist.ticks < MaxClockTicks
    /\ Step([is EXCEPT !.now = @ + AV_NOSYNC_THRESHOLD * is.bytes_per_sec], "time",
            [hist EXCEPT !.ticks = @ + 1])

\* sdl_audio_callback: a frame of the audio queue's serial or of the serial
\* before is decoded, or none is, and the callback sets the clocks
ClkAudioCallback ==
    /\ is.audio_st # 0
    /\ hist.callbacks < MaxClockCallbacks
    /\ \E decoded \in BOOLEAN, af_pts \in FramePts(is) \cup {NAN},
          af_serial \in {is.audioq_serial - 1, is.audioq_serial} :
          /\ decoded => is.paused = 0 /\ af_serial >= 1
          /\ ~decoded => isnan(af_pts) /\ af_serial = is.audioq_serial
          /\ LET s0 == [is EXCEPT !.audio_callback_time = is.now]
                 s1 == IF decoded
                       THEN callback_filled(s0, 0, af_pts, 0, af_serial)
                       ELSE callback_silence(s0)
                 s2 == [s1 EXCEPT !.audio_buf_index = s1.audio_buf_size]
             IN Step(callback_tail(s2, is.audioq_serial), "audio",
                     [hist EXCEPT !.callbacks = @ + 1])

\* get_video_frame: the video thread decides on the early drop of a picture
ClkVideoDecode ==
    /\ is.video_st # 0
    /\ hist.decodes < MaxClockDecodes
    /\ Step(is, "video",
            [hist EXCEPT !.decodes = @ + 1,
                         !.early = IF early_drop_on(is) THEN 1 ELSE 0])

\* video_refresh
ClkVideoRefresh ==
    /\ hist.refreshes < MaxClockRefreshes
    /\ \E nb \in FillLevels, shown \in BOOLEAN, vp_pts \in FramePts(is) \cup {NAN},
          vp_serial \in {is.videoq_serial - 1, is.videoq_serial} :
          /\ shown => is.video_st # 0 /\ is.paused = 0 /\ vp_serial >= 1
          /\ ~shown => isnan(vp_pts) /\ vp_serial = is.videoq_serial
          /\ Step(video_refresh_clocks(is, nb, nb, 0, shown, vp_pts, vp_serial),
                  "presenter",
                  [hist EXCEPT !.refreshes = @ + 1,
                               !.master = IF is.paused = 0
                                          THEN get_master_sync_type(is) ELSE @,
                               !.late = IF shown
                                        THEN (IF late_drop_on(is) THEN 1 ELSE 0) ELSE @])

\* the event loop: toggle_pause
ClkTogglePause ==
    /\ hist.pauses < MaxClockPauses
    /\ Step([stream_toggle_pause_clocks(is, is.videoq_serial, is.now) EXCEPT !.step = 0],
            "presenter", [hist EXCEPT !.pauses = @ + 1])

\* read_thread serves a seek: the queues of the open streams are flushed,
\* the external clock is set to the target or to NAN, and a paused player
\* steps to the next frame
ClkSeek ==
    /\ hist.seeks < MaxClockSeeks
    /\ \E target \in FramePts(is) \cup {NAN} :
          LET s1 == [is EXCEPT !.audioq_serial = IF is.audio_st # 0 THEN @ + 1 ELSE @,
                               !.videoq_serial = IF is.video_st # 0 THEN @ + 1 ELSE @,
                               !.extclk = set_clock(@, target, 0, is.now)]
              s2 == IF s1.paused # 0
                    THEN stream_toggle_pause_clocks(s1, s1.videoq_serial, s1.now)
                    ELSE s1
          IN Step(IF is.paused # 0 THEN [s2 EXCEPT !.step = 1] ELSE s1, "reader",
                  [hist EXCEPT !.seeks = @ + 1])

NextClock ==
    \/ ClkTick \/ ClkAudioCallback \/ ClkVideoDecode \/ ClkVideoRefresh
    \/ ClkTogglePause \/ ClkSeek

SpecClock == InitClock /\ [][NextClock]_vars

(***************************************************************************)
(* SpecSpeed: video_refresh, tick after tick, on a realtime input          *)
(***************************************************************************)
InitSpeed ==
    /\ NoPipe
    /\ \E sync \in {AV_SYNC_AUDIO_MASTER, AV_SYNC_EXTERNAL_CLOCK}, st \in ClockStreams :
          is = ClockStateOf(sync, st[1], st[2], -1, 1)
    /\ hist = ClockHistInit

\* video_refresh with no picture due
SpeedTick ==
    /\ is.paused = 0
    /\ \E audio_nb \in FillLevels, video_nb \in FillLevels, err \in RoundErrs :
          Step(video_refresh_clocks(is, audio_nb, video_nb, err, FALSE, NAN,
                                    is.videoq_serial),
               "presenter", [hist EXCEPT !.master = get_master_sync_type(is),
                                         !.fill = <<audio_nb, video_nb>>])

NextSpeed == SpeedTick

SpecSpeed == InitSpeed /\ [][NextSpeed]_vars

(***************************************************************************)
(* SpecLock: the mutexes of the packet queues and the frame queues         *)
(* The variable is holds, for every thread of the player, the queue calls  *)
(* it still has to make, where it is in the first of them and the queue    *)
(* mutexes it holds, and for every queue mutex the thread that owns it.    *)
(* What the queues hold is left out: whether a call finds its condition    *)
(* true is a choice.                                                       *)
(***************************************************************************)
LockThreads ==
    {"read_thread", "video_thread", "audio_thread", "subtitle_thread",
     "event_loop", "sdl_audio_callback"}

PacketQueues == {"videoq", "audioq", "subtitleq"}
FrameQueues  == {"pictq", "sampq", "subpq"}
QueueMutexes == PacketQueues \cup FrameQueues

\* f->pktq, as stream_open hands it to frame_queue_init
PktqOf(f) ==
    IF f = "pictq" THEN "videoq" ELSE IF f = "sampq" THEN "audioq" ELSE "subtitleq"

Call(fn, m) == [fn |-> fn, m |-> m]

\* the functions that wait on the queue's condition: SDL_CondWait gives the
\* mutex up and takes it again before it returns
CondWaiters == {"packet_queue_get", "frame_queue_peek_writable", "frame_queue_peek_readable"}

\* the queue mutexes a call takes, in the order it takes them, if the wait
\* loops of the frame queue read f->pktq->abort_request under pktq's mutex
LocksOf_pktq(c) ==
    IF c.fn \in {"frame_queue_peek_writable", "frame_queue_peek_readable"}
    THEN <<c.m, PktqOf(c.m)>>
    ELSE <<c.m>>

\* the queue mutexes a call takes, in the order it takes them: its queue's
\* mutex and nothing else (what runs between SDL_LockMutex and
\* SDL_UnlockMutex calls no function that locks a queue; abort_request of
\* f->pktq is read without pktq's mutex)
LocksOf(c) == <<c.m>>

\* decoder_abort: packet_queue_abort, frame_queue_signal, (SDL_WaitThread,)
\* packet_queue_flush
decoder_abort_calls(pktq, f) ==
    <<Call("packet_queue_abort", pktq), Call("frame_queue_signal", f),
      Call("packet_queue_flush", pktq)>>

\* the queue calls each thread makes, grouped as the code makes them one
\* after the other
QueueCalls(t) ==
    IF t = "read_thread"
    THEN {<<Call("packet_queue_put", pq)>> : pq \in PacketQueues}
         \cup {<<Call("packet_queue_start", pq)>> : pq \in PacketQueues}
         \cup {<<Call("packet_queue_flush", "audioq"),
                 Call("packet_queue_flush", "subtitleq"),
                 Call("packet_queue_flush", "videoq")>>}
    ELSE IF t = "video_thread"
    THEN {<<Call("packet_queue_get", "videoq")>>,
          <<Call("frame_queue_peek_writable", "pictq"), Call("frame_queue_push", "pictq")>>}
    ELSE IF t = "audio_thread"
    THEN {<<Call("packet_queue_get", "audioq")>>,
          <<Call("frame_queue_peek_writable", "sampq"), Call("frame_queue_push", "sampq")>>}
    ELSE IF t = "subtitle_thread"
    THEN {<<Call("frame_queue_peek_writable", "subpq"),
            Call("packet_queue_get", "subtitleq"),
            Call("frame_queue_push", "subpq")>>}
    ELSE IF t = "event_loop"
    THEN {<<Call("video_refresh", "pictq"), Call("frame_queue_next", "pictq")>>,
          <<Call("frame_queue_next", "subpq")>>,
          decoder_abort_calls("audioq", "sampq"),
          decoder_abort_calls("videoq", "pictq"),
          decoder_abort_calls("subtitleq", "subpq")}
    ELSE {<<Call("frame_queue_peek_readable", "sampq"), Call("frame_queue_next", "sampq")>>}

LockThreadInit == [todo |-> << >>, pc |-> "idle", held |-> {}]

InitLock ==
    /\ NoPipe
    /\ hist = << >>
    /\ is = [thr   |-> [t \in LockThreads |-> LockThreadInit],
             owner |-> [m \in QueueMutexes |-> "none"]]

\* the mutexes of the call in hand the thread has yet to take
LockNeeded(th) ==
    SelectSeq(LocksOf(Head(th.todo)), LAMBDA m : m \notin th.held)

\* a thread starts on a group of queue calls
LockCall ==
    /\ \E t \in LockThreads : \E calls \in QueueCalls(t) :
          /\ is.thr[t].pc = "idle"
          /\ is' = [is EXCEPT !.thr[t] = [@ EXCEPT !.todo = calls, !.pc = "lock"]]
    /\ UNCHANGED <<q, cons, gh, ctype, fq, d, pres, ui, hist>>

\* SDL_LockMutex returns once the mutex is free
LockAcquire ==
    /\ \E t \in LockThreads :
          LET th == is.thr[t]
              m  == Head(LockNeeded(th))
          IN /\ th.pc = "lock"
             /\ is.owner[m] = "none"
             /\ is' = [is EXCEPT !.owner[m] = t,
                                 !.thr[t] = [@ EXCEPT !.held = @ \cup {m},
                                                      !.pc = IF Len(LockNeeded(th)) = 1
                                                             THEN "held" ELSE "lock"]]
    /\ UNCHANGED <<q, cons, gh, ctype, fq, d, pres, ui, hist>>

\* SDL_CondWait: the queue's mutex is given up while the thread waits
LockCondWait ==
    /\ \E t \in LockThreads :
          LET th == is.thr[t]
              m  == Head(th.todo).m
          IN /\ th.pc = "held"
             /\ Head(th.todo).fn \in CondWaiters
             /\ is' = [is EXCEPT !.owner[m] = "none",
                                 !.thr[t] = [@ EXCEPT !.held = @ \ {m}, !.pc = "wait"]]
    /\ UNCHANGED <<q, cons, gh, ctype, fq, d, pres, ui, hist>>

\* SDL_CondWait returns: signalled, with the mutex taken again
LockCondWake ==
    /\ \E t \in LockThreads :
          LET th == is.thr[t]
              m  == Head(th.todo).m
          IN /\ th.pc = "wait"
             /\ is.owner[m] = "none"
             /\ is' = [is EXCEPT !.owner[m] = t,
                                 !.thr[t] = [@ EXCEPT !.held = @ \cup {m}, !.pc = "held"]]
    /\ UNCHANGED <<q, cons, gh, ctype, fq, d, pres, ui, hist>>

\* SDL_UnlockMutex, and the return of the call
LockRelease ==
    /\ \E t \in LockThreads :
          LET th == is.thr[t]
          IN /\ th.pc = "held"
             /\ is' = [is EXCEPT !.owner = [m \in QueueMutexes |->
                                               IF m \in th.held THEN "none" ELSE @[m]],
                                 !.thr[t] = [todo |-> Tail(th.todo),
                                             pc   |-> IF Len(th.todo) = 1
                                                      THEN "idle" ELSE "lock",
                                             held |-> {}]]
    /\ UNCHANGED <<q, cons, gh, ctype, fq, d, pres, ui, hist>>

NextLock == LockCall \/ LockAcquire \/ LockCondWait \/ LockCondWake \/ LockRelease

SpecLock == InitLock /\ [][NextLock]_vars

(***************************************************************************)
(* SpecDelay: compute_target_delay                                         *)
(* The clocks are those of SpecClock: with bytes_per_sec ticks to the      *)
(* second, the thresholds below are in hundredths of a second.  The delay  *)
(* handed in and the delay returned are fields of hist.                    *)
(***************************************************************************)
\* is->max_frame_duration as read_thread sets it from AVFMT_TS_DISCONT
max_frame_duration(ts_discont, st) ==
    (IF ts_discont THEN 10 ELSE 3600) * st.bytes_per_sec

\* the difference compute_target_delay reads off the clocks
clock_diff(st) ==
    fsub(get_clock(st.vidclk, st.videoq_serial, st.now), get_master_clock(st))

\* compute_target_delay that corrects whatever the difference is
compute_target_delay_nolimit(delay, st) ==
    IF get_master_sync_type(st) # AV_SYNC_VIDEO_MASTER
    THEN LET diff == clock_diff(st)
             sync_threshold == Max(AV_SYNC_THRESHOLD_MIN, Min(AV_SYNC_THRESHOLD_MAX, delay))
         IN IF ~isnan(diff)
            THEN IF diff <= 0 - sync_threshold THEN Max(0, delay + diff)
                 ELSE IF diff >= sync_threshold /\ delay > AV_SYNC_FRAMEDUP_THRESHOLD
                      THEN delay + diff
                 ELSE IF diff >= sync_threshold THEN 2 * delay
                 ELSE delay
            ELSE delay
    ELSE delay

compute_target_delay(delay, st) ==
    IF get_master_sync_type(st) # AV_SYNC_VIDEO_MASTER
    THEN LET diff == clock_diff(st)
             sync_threshold == Max(AV_SYNC_THRESHOLD_MIN, Min(AV_SYNC_THRESHOLD_MAX, delay))
         IN IF ~isnan(diff) /\ fabs(diff) < st.max_frame_duration
            THEN IF diff <= 0 - sync_threshold THEN Max(0, delay + diff)
                 ELSE IF diff >= sync_threshold /\ delay > AV_SYNC_FRAMEDUP_THRESHOLD
                      THEN delay + diff
                 ELSE IF diff >= sync_threshold THEN 2 * delay
                 ELSE delay
            ELSE delay
    ELSE delay

\* the differences between the video clock and the master clock that are
\* tried, NAN among them, and the delays
DelayDiffs(st) ==
    LET mags == {0, AV_SYNC_THRESHOLD_MIN - 1, AV_SYNC_THRESHOLD_MIN,
                 AV_SYNC_THRESHOLD_MAX + MaxDelayExtra,
                 AV_NOSYNC_THRESHOLD * st.bytes_per_sec - 1,
                 AV_NOSYNC_THRESHOLD * st.bytes_per_sec,
                 AV_NOSYNC_THRESHOLD * st.bytes_per_sec + MaxDelayExtra,
                 max_frame_duration(FALSE, st) - 1,
                 max_frame_duration(FALSE, st)}
    IN {NAN} \cup mags \cup {0 - m : m \in mags}

Delays == {0, AV_SYNC_THRESHOLD_MIN, AV_SYNC_THRESHOLD_MAX, AV_SYNC_THRESHOLD_MAX + MaxDelayExtra}

\* the player with the master clock at 0 and the video clock at diff
DelayStateOf(sync, ts_discont, diff) ==
    LET st == ClockStateOf(sync, 1, 1, -1, 0)
        m  == IF sync = AV_SYNC_AUDIO_MASTER
              THEN [st EXCEPT !.audclk = set_clock(@, 0, st.audioq_serial, st.now)]
              ELSE [st EXCEPT !.extclk = set_clock(@, 0, @.serial, st.now)]
        v  == IF isnan(diff) THEN m
              ELSE [m EXCEPT !.vidclk = set_clock(@, diff, st.videoq_serial, st.now)]
    IN [f \in {"max_frame_duration"} |-> max_frame_duration(ts_discont, st)] @@ v

InitDelay ==
    /\ NoPipe
    /\ \E sync \in {AV_SYNC_AUDIO_MASTER, AV_SYNC_VIDEO_MASTER, AV_SYNC_EXTERNAL_CLOCK},
          ts_discont \in BOOLEAN :
          \E diff \in DelayDiffs(ClockStateOf(sync, 1, 1, -1, 0)) :
             is = DelayStateOf(sync, ts_discont, diff)
    /\ \E delay \in Delays : hist = [called |-> FALSE, delay |-> delay, returned |-> delay]

\* video_refresh calls compute_target_delay with the duration of the frame
\* shown last
DelayCompute ==
    /\ ~hist.called
    /\ hist' = [hist EXCEPT !.called = TRUE,
                            !.returned = compute_target_delay(hist.delay, is)]
    /\ UNCHANGED <<q, cons, gh, ctype, fq, d, pres, ui, is>>

NextDelay == DelayCompute

SpecDelay == InitDelay /\ [][NextDelay]_vars

(***************************************************************************)
(* SpecAbort: decoder_abort against a decoder thread that may be blocked   *)
(* The variable d is the decoder thread: where it is (pc), whether it is   *)
(* alive, and whether the write of abort_request has been made visible to  *)
(* it by a mutex it took (synced).  cons.fmutex is the owner of the frame  *)
(* queue's mutex; the packet queue's critical sections are single steps.   *)
(* abort_request is written under the packet queue's mutex and read by     *)
(* frame_queue_peek_writable and decoder_decode_frame without it: until a  *)
(* mutex orders the read after the write, the read may still give 0.       *)
(***************************************************************************)
\* frame_queue_signal that wakes nobody
frame_queue_signal_none(dd) == dd

\* SDL_CondSignal(f->cond), as frame_queue_signal, frame_queue_push and
\* frame_queue_next call it: the decoder thread is the one thread that waits
\* in frame_queue_peek_writable
frame_queue_signal(dd) == IF dd.pc = "pwwait" THEN [dd EXCEPT !.pc = "pwwoken"] ELSE dd

\* SDL_CondSignal(q->cond) of packet_queue_put_private and packet_queue_abort
packet_queue_signal(dd) == IF dd.pc = "getwait" THEN [dd EXCEPT !.pc = "getwoken"] ELSE dd

\* what a read of abort_request without the packet queue's mutex may give
ReadAbortRequest(dd, pq) ==
    IF dd.synced THEN {pq.abort_request} ELSE {0, pq.abort_request}

InitAbort ==
    /\ ctype \in {"video", "audio"}
    /\ q = packet_queue_start(packet_queue_init)
    /\ fq = FrameQueueOf(ctype)
    /\ d = [pc |-> "get", alive |-> TRUE, synced |-> FALSE]
    /\ cons = [fmutex |-> "none",
               published |-> FALSE]   \* the aborter has unlocked f->mutex
    /\ ui = "open"
    /\ hist = [offered |-> 0, at_abort |-> "none"]
    /\ gh = << >>
    /\ pres = << >>
    /\ is = << >>

\* read_thread: packet_queue_put
AbortPut ==
    /\ hist.offered < MaxAbortPuts
    /\ LET r == packet_queue_put(q, [id |-> hist.offered + 1, size |-> DataPacket.size,
                                     duration |-> DataPacket.duration])
       IN /\ q' = r.q
          /\ d' = IF r.signal THEN packet_queue_signal(d) ELSE d
    /\ hist' = [hist EXCEPT !.offered = @ + 1]
    /\ UNCHANGED <<cons, gh, is, ctype, fq, pres, ui>>

\* decoder thread: one pass through the loop of packet_queue_get(.., 1, ..),
\* on entry or after SDL_CondWait has returned
AbortGet ==
    /\ d.alive /\ d.pc \in {"get", "getwoken"}
    /\ LET r == packet_queue_get(q, 1)
       IN /\ q' = r.q
          /\ d' = IF r.wait THEN [d EXCEPT !.pc = "getwait"]
                  ELSE IF r.ret < 0 THEN [d EXCEPT !.pc = "done", !.alive = FALSE]
                  ELSE [d EXCEPT !.pc = "decode"]
    /\ UNCHANGED <<cons, gh, is, ctype, fq, pres, ui, hist>>

\* decoder thread: between the two, decoder_decode_frame tests abort_request
\* at the top of its loop and then has a frame
AbortDecode ==
    /\ d.alive /\ d.pc = "decode"
    /\ \E a \in ReadAbortRequest(d, q) :
          d' = IF a = 1 THEN [d EXCEPT !.pc = "done", !.alive = FALSE]
               ELSE [d EXCEPT !.pc = "pwlock"]
    /\ UNCHANGED <<q, cons, gh, is, ctype, fq, pres, ui, hist>>

\* decoder thread: SDL_LockMutex(f->mutex) in frame_queue_peek_writable, or
\* SDL_CondWait taking the mutex again
AbortPeekLock ==
    /\ d.alive /\ d.pc \in {"pwlock", "pwwoken"}
    /\ cons.fmutex = "none"
    /\ cons' = [cons EXCEPT !.fmutex = "decoder"]
    /\ d' = [d EXCEPT !.pc = "pwtest", !.synced = @ \/ cons.published]
    /\ UNCHANGED <<q, gh, is, ctype, fq, pres, ui, hist>>

\* decoder thread: the test of the wait loop; either SDL_CondWait, which
\* gives the mutex up, or SDL_UnlockMutex
AbortPeekTest ==
    /\ d.alive /\ d.pc = "pwtest"
    /\ \E a \in ReadAbortRequest(d, q) :
          d' = IF fq.size >= fq.max_size /\ a = 0
               THEN [d EXCEPT !.pc = "pwwait"]
               ELSE [d EXCEPT !.pc = "pwret"]
    /\ cons' = [cons EXCEPT !.fmutex = "none"]
    /\ UNCHANGED <<q, gh, is, ctype, fq, pres, ui, hist>>

\* decoder thread: `if (f->pktq->abort_request) return NULL;`, and with a
\* slot the frame is written and frame_queue_push called
AbortPeekReturn ==
    /\ d.alive /\ d.pc = "pwret"
    /\ cons.fmutex = "none"
    /\ \E a \in ReadAbortRequest(d, q) :
          IF a = 1
          THEN d' = [d EXCEPT !.pc = "done", !.alive = FALSE] /\ fq' = fq
          ELSE /\ d' = [d EXCEPT !.pc = "get", !.synced = @ \/ cons.published]
               /\ fq' = frame_queue_push(fq)
    /\ UNCHANGED <<q, cons, gh, is, ctype, pres, ui, hist>>

\* video_refresh or the audio callback: frame_queue_next
AbortNext ==
    /\ frame_queue_nb_remaining(fq) > 0
    /\ cons.fmutex = "none"
    /\ fq' = frame_queue_next(fq)
    /\ d' = IF fq'.size # fq.size THEN frame_queue_signal(d) ELSE d
    /\ UNCHANGED <<q, cons, gh, is, ctype, pres, ui, hist>>

\* decoder_abort: packet_queue_abort
AbortQueue ==
    /\ ui = "open"
    /\ q' = packet_queue_abort(q)
    /\ d' = packet_queue_signal(d)
    /\ ui' = "signal"
    /\ hist' = [hist EXCEPT !.at_abort = d.pc]
    /\ UNCHANGED <<cons, gh, is, ctype, fq, pres>>

\* decoder_abort: frame_queue_signal
AbortSignal ==
    /\ ui = "signal"
    /\ cons.fmutex = "none"
    /\ d' = frame_queue_signal(d)
    /\ cons' = [cons EXCEPT !.published = TRUE]
    /\ ui' = "join"
    /\ UNCHANGED <<q, gh, is, ctype, fq, pres, hist>>

\* decoder_abort: SDL_WaitThread has returned; packet_queue_flush
AbortJoin ==
    /\ ui = "join"
    /\ ~d.alive
    /\ q' = packet_queue_flush(q)
    /\ ui' = "closed"
    /\ UNCHANGED <<cons, gh, is, ctype, fq, d, pres, hist>>

DecoderThreadStep ==
    AbortGet \/ AbortDecode \/ AbortPeekLock \/ AbortPeekTest \/ AbortPeekReturn

NextAbort ==
    \/ AbortPut \/ AbortNext \/ AbortQueue
    \/ AbortGet \/ AbortDecode \/ AbortPeekLock \/ AbortPeekTest \/ AbortPeekReturn
    \/ AbortSignal \/ AbortJoin

\* the decoder thread runs when it can, and decoder_abort, once called, goes
\* on from packet_queue_abort to frame_queue_signal; nothing is assumed of
\* read_thread and of the consumer of the frames
SpecAbort ==
    InitAbort /\ [][NextAbort]_vars
    /\ WF_vars(DecoderThreadStep) /\ WF_vars(AbortSignal)

(***************************************************************************)
(* SpecFifo: an AVFifo under av_fifo_write, av_fifo_read and av_fifo_grow2 *)
(* The variable q holds the AVFifo.  hist holds the last call: its name,   *)
(* its argument (number of elements, or increment), what it returned and   *)
(* the AVFifo before it, and the number of elements written so far.        *)
(***************************************************************************)
\* the n-th element written
FifoElem(n) == [pkt |-> [id |-> n, size |-> 0, duration |-> 0], serial |-> 0]

\* element sizes: one that makes auto_grow_limit MaxFifoLimit, and one
\* larger than AUTO_GROW_DEFAULT_BYTES, for which the limit is 1
FifoElemSizes == {AUTO_GROW_DEFAULT_BYTES \div MaxFifoLimit, 2 * AUTO_GROW_DEFAULT_BYTES}

InitFifo ==
    /\ \E n \in 0..MaxFifoAlloc, es \in FifoElemSizes, fl \in {0, AV_FIFO_FLAG_AUTO_GROW} :
          /\ q = av_fifo_alloc2(n, es, fl)
          /\ hist = [op |-> "alloc", arg |-> n, ret |-> 0, before |-> q, written |-> 0]
    /\ cons = << >>
    /\ gh = << >>
    /\ ctype = "none"
    /\ fq = << >>
    /\ d = << >>
    /\ pres = << >>
    /\ ui = "none"
    /\ is = << >>

FifoWrite ==
    /\ \E len \in 0..MaxFifoWrite :
          /\ hist.written + len <= MaxFifoIds
          /\ LET buf == [i \in 1..len |-> FifoElem(hist.written + i)]
                 r == av_fifo_write(q, buf)
             IN /\ q' = r.f
                /\ hist' = [op |-> "write", arg |-> len, ret |-> r.ret, before |-> q,
                            written |-> IF r.ret >= 0 THEN hist.written + len
                                        ELSE hist.written]
    /\ UNCHANGED <<cons, gh, ctype, fq, d, pres, ui, is>>

FifoRead ==
    /\ \E n \in 1..av_fifo_can_read(q) :
          LET r == av_fifo_read(q, n)
          IN /\ q' = r.f
             /\ hist' = [hist EXCEPT !.op = "read", !.arg = n, !.ret = r.ret, !.before = q]
    /\ UNCHANGED <<cons, gh, ctype, fq, d, pres, ui, is>>

FifoGrow ==
    /\ \E inc \in 0..MaxFifoInc \cup {SIZE_MAX} :
          /\ IF inc <= MaxFifoInc
             THEN q.nb_elems + inc <= MaxFifoElems
             ELSE inc > SIZE_MAX - q.nb_elems
          /\ LET r == av_fifo_grow2(q, inc)
             IN /\ q' = r.f
                /\ hist' = [hist EXCEPT !.op = "grow", !.arg = inc, !.ret = r.ret,
                                        !.before = q]
    /\ UNCHANGED <<cons, gh, ctype, fq, d, pres, ui, is>>

NextFifo == FifoWrite \/ FifoRead \/ FifoGrow

SpecFifo == InitFifo /\ [][NextFifo]_vars

(***************************************************************************)
(* Properties of the packet queue                                          *)
(***************************************************************************)
RECURSIVE SumSize(_)
SumSize(s) == IF s = << >> THEN 0
              ELSE Head(s).pkt.size + SizeofMyAVPacketList + SumSize(Tail(s))

RECURSIVE SumDuration(_)
SumDuration(s) == IF s = << >> THEN 0 ELSE Head(s).pkt.duration + SumDuration(Tail(s))

\* C1: the serial of a packet queue never decreases: packet_queue_flush and
\* packet_queue_start each raise it by exactly one; put, get and abort leave
\* it as it is.
C1_SerialMonotone ==
    [][/\ q'.serial >= q.serial
       /\ (PQFlush \/ PQStart) => q'.serial = q.serial + 1
       /\ (PQPutAny \/ PQGet \/ PQGetWoken \/ PQAbort) => q'.serial = q.serial]_vars

\* a flush of a non-empty queue, a start and a successful get have all happened
C1_Witness == q.serial >= 2 /\ gh.n_flushed >= 1 /\ gh.n_get >= 1 /\ q.abort_request = 1

\* C4: between operations (every operation is one critical section) the
\* counters of the queue describe what the ring holds: nb_packets is the
\* number of entries, duration the sum of their durations, size the sum of
\* their byte sizes plus sizeof(MyAVPacketList) for each.
C4_CountersMatchContents ==
    LET c == FifoContents(q.pkt_list)
    IN /\ q.nb_packets = Len(c)
       /\ q.duration = SumDuration(c)
       /\ q.size = SumSize(c)

\* packets of both kinds are queued after a get and a flush
C4_Witness ==
    /\ q.nb_packets = 2 /\ q.size = 35 /\ q.duration = 2
    /\ gh.n_get >= 1

\* C5: packet_queue_flush leaves the queue without packets, with nb_packets,
\* size and duration 0 and with the serial one above what it was, whatever
\* the queue held and whether or not it is aborted.
C5_FlushResets ==
    [][PQFlush => /\ av_fifo_can_read(q'.pkt_list) = 0
                  /\ q'.nb_packets = 0
                  /\ q'.size = 0
                  /\ q'.duration = 0
                  /\ q'.serial = q.serial + 1
                  /\ q'.abort_request = q.abort_request]_vars

\* a flush has emptied a queue that held two packets, and the queue is aborted
C5_Witness ==
    /\ gh.n_flushed = 2 /\ gh.n_get = 0 /\ gh.offered = 2
    /\ q.abort_request = 1 /\ q.nb_packets = 0 /\ q.serial = 2

\* C6 as stated: successful puts minus successful gets is nb_packets.
C6_PutsMinusGets == gh.n_put - gh.n_get = q.nb_packets

\* C6 amended: successful puts minus successful gets minus the packets that
\* packet_queue_flush discarded is nb_packets.
C6_PutsMinusGetsMinusFlushed == gh.n_put - gh.n_get - gh.n_flushed = q.nb_packets

\* a get and a flush of a non-empty queue have happened and a packet is queued
C6_Witness == gh.n_flushed >= 1 /\ gh.n_get >= 1 /\ q.nb_packets >= 1

\* C7: the ring holds the accepted entries in the order of their puts, each
\* with the serial the queue had at its put, and a successful get returns the
\* oldest of them with that serial.
C7_FifoOrder ==
    /\ [](FifoContents(q.pkt_list) = gh.accepted)
    /\ [][(gh'.n_get = gh.n_get + 1) =>
             /\ cons'.ret = 1
             /\ cons'.pkt = Head(gh.accepted).pkt
             /\ cons'.serial = Head(gh.accepted).serial]_vars

\* the ring grew to 7 slots while wrapped, is wrapped now, and a get has
\* returned the packet put after that growth began
C7_Witness ==
    /\ q.pkt_list.nb_elems = 7
    /\ q.pkt_list.offset_w < q.pkt_list.offset_r
    /\ cons.ret = 1 /\ cons.pkt.id >= 4
    /\ gh.n_get >= 4

C12_AbortedOpsFail ==
    /\ [](q.serial = 0 => q.abort_request = 1)
    /\ [][(q.abort_request = 1 /\ PQPutAny) =>
             /\ q' = q
             /\ gh'.n_put = gh.n_put
             /\ gh'.offered = gh.offered + 1]_vars
    /\ [][(q.abort_request = 1 /\ (PQGet \/ PQGetWoken)) =>
             /\ q' = q
             /\ cons'.pc = "idle"
             /\ cons'.ret = -1
             /\ cons'.pkt = cons.pkt]_vars

\* an aborted queue that holds packets has refused a put and a get
C12_Witness ==
    /\ q.abort_request = 1
    /\ q.nb_packets >= 1
    /\ gh.offered > gh.n_put
    /\ cons.pc = "idle" /\ cons.ret = -1

\* C15 as stated: when a seek was served while the player was paused, the
\* frame video_refresh advances to in step mode is of the packet queue's new
\* serial, and the player is paused again.
C15_StepShowsNewSerial ==
    [][(VRTake /\ pres.step = 1) =>
          /\ pres'.paused = 1
          /\ fq'.queue[frame_queue_peek_last(fq')].serial = q.serial]_vars

\* C17 as stated: when the new component is opened after a stream switch, the
\* old component's packet queue has been aborted, its decoder thread joined
\* and its frame queue drained, and the packet queue of the new component
\* starts at serial 0.
C17_SwitchDrainsAndRestarts ==
    [][Reopen =>
          /\ q.abort_request = 1
          /\ ~d.alive
          /\ frame_queue_nb_remaining(fq) = 0
          /\ q'.serial = 0]_vars

\* C17 (amended): when the new component is opened after a stream switch, the
\* old component's packet queue has been aborted and flushed and its decoder
\* thread joined; the frame queue is left as it is; the new component takes
\* over the same packet queue, started with the serial it had plus one,
\* which is at least 3.
C17_SwitchAbortsJoinsFlushes ==
    [][Reopen =>
          /\ q.abort_request = 1
          /\ ~d.alive
          /\ q.nb_packets = 0
          /\ fq' = fq
          /\ q'.abort_request = 0
          /\ q'.serial = q.serial + 1
          /\ q'.serial >= 3]_vars

C17_Witness ==
    /\ ui = "open" /\ hist.reopens = 1 /\ d.alive
    /\ q.serial = 3 /\ q.abort_request = 0
    /\ frame_queue_nb_remaining(fq) > 0

(***************************************************************************)
(* Properties of read_thread                                               *)
(***************************************************************************)
\* read_thread serves a seek request in this step
SeekServed == ReaderSeek /\ is.abort_request = 0 /\ is.seek_req = 1

Flushed(s) ==
    /\ QueueOf(is', s).serial = QueueOf(is, s).serial + 1
    /\ QueueOf(is', s).nb_packets = 0
    /\ QueueOf(is', s).size = 0

\* C14 as stated: each seek request served by read_thread flushes all three
\* packet queues, so the serial of each of them rises by exactly one.
C14_SeekFlushesAll ==
    [][SeekServed => \A s \in StreamNames : Flushed(s)]_vars

\* C14 (amended): a served seek request whose avformat_seek_file succeeded
\* flushes the packet queue of every open stream and raises its serial by
\* exactly one; when avformat_seek_file failed no queue is touched, and the
\* queue of a stream that is not open is never touched.
C14_SeekFlushesOpen ==
    [][SeekServed =>
         \A s \in StreamNames :
            IF is'.ret >= 0 /\ stream_index(is, s) >= 0
            THEN Flushed(s)
            ELSE QueueOf(is', s) = QueueOf(is, s)]_vars

C14_Witness ==
    /\ is.pc = "full" /\ is.ret = 0 /\ is.seek_req = 0 /\ hist.user_seeks = 1
    /\ is.videoq.serial = 2 /\ is.videoq.nb_packets = 0
    /\ is.subtitle_stream >= 0 /\ is.subtitleq.serial = 2
    /\ is.audio_stream < 0 /\ is.audioq.serial = 0
    /\ hist.reads = 1

\* C16: with the loop option N >= 1 and no seek by the user, read_thread
\* issues a seek to the start after each of the first N-1 times the input
\* was played to its end and none after the N-th, N-1 seeks in all; with
\* loop = 0 it issues one after every time.
C16_LoopSeeks ==
    hist.user_seeks = 0 =>
       hist.loop_seeks = IF hist.loop0 = 0 THEN hist.completions
                         ELSE Min(hist.completions, hist.loop0 - 1)

C16_Witness ==
    /\ hist.loop0 = 2 /\ hist.completions = 2 /\ hist.loop_seeks = 1
    /\ is.videoq.serial = 2 /\ is.pc = "top" /\ is.autoexit = 0

\* the total size of the three queues is over 15 MiB
OverMaxQueueSize ==
    is.audioq.size + is.videoq.size + is.subtitleq.size > 15 * 1024 * 1024

\* C18: a stream has enough packets as stated: its queue holds at least 25
\* packets and at least 1 s of encoded duration
EnoughAsStated(s) ==
    /\ QueueOf(is, s).nb_packets >= 25
    /\ QueueOf(is, s).duration * is.time_base.num >= is.time_base.den

\* C18 as stated: unless infinite_buffer is enabled, read_thread reads no
\* packet and waits when the three queues hold more than 15 MiB or when every
\* open stream has enough packets, enough being at least 25 packets and at
\* least 1 s.
C18_WaitsWhenAtLeast ==
    [][(/\ ReaderFull
        /\ is.infinite_buffer < 1
        /\ \/ OverMaxQueueSize
           \/ \A s \in StreamNames : stream_index(is, s) >= 0 => EnoughAsStated(s))
       => is'.pc = "top" /\ hist'.reads = hist.reads]_vars

\* C18 (amended): a stream has enough when it is not open, or its queue is
\* aborted, or it is an attached picture, or its queue holds more than 25
\* packets and either no duration at all or more than 1 s
EnoughAmended(s) ==
    \/ stream_index(is, s) < 0
    \/ QueueOf(is, s).abort_request = 1
    \/ s = "video" /\ is.attached_pic
    \/ /\ QueueOf(is, s).nb_packets >= 26
       /\ \/ QueueOf(is, s).duration = 0
          \/ QueueOf(is, s).duration * is.time_base.num > is.time_base.den

\* C18 (amended): unless infinite_buffer is enabled (>= 1), read_thread reads
\* no packet and waits when the three queues hold more than 15 MiB or when
\* every stream has enough packets in the amended sense.
C18_WaitsWhenMoreThan ==
    [][(/\ ReaderFull
        /\ is.infinite_buffer < 1
        /\ \/ OverMaxQueueSize
           \/ \A s \in StreamNames : EnoughAmended(s))
       => is'.pc = "top" /\ hist'.reads = hist.reads]_vars

C18_Witness ==
    /\ is.pc = "top" /\ is.infinite_buffer < 1 /\ hist.reads = 1
    /\ is.audioq.nb_packets = 26 /\ is.videoq.nb_packets = 26
    /\ is.videoq.duration = 0
    /\ is.subtitle_stream >= 0 /\ is.subtitleq.nb_packets = 26
    /\ ~OverMaxQueueSize

\* C19 as stated: no packet is dropped for lack of queue space: every packet
\* read_thread routes to a packet queue that is not aborted is appended to it,
\* however many packets the queue holds, with or without infinite_buffer.
C19_NoPacketDropped ==
    [][(ReaderRead /\ hist'.reads = hist.reads + 1
          /\ hist'.put.stream # "none" /\ hist'.put.aborted = 0)
       => /\ hist'.put.ret = 0
          /\ QueueOf(is', hist'.put.stream).nb_packets
                = QueueOf(is, hist'.put.stream).nb_packets + 1]_vars

\* av_read_frame fails in this step and ic->pb->error is set
ReadIoError == ReaderRead /\ is'.pb_error # 0

\* C20 as stated: when av_read_frame fails with an I/O error, read_thread
\* ends the session if autoexit is set, and otherwise keeps running: it waits
\* and reads again in a later iteration.
C20_IoErrorRetries ==
    [][ReadIoError =>
          IF is.autoexit # 0
          THEN is'.pc = "end" /\ is'.quit_event
          ELSE is'.pc = "top"]_vars

\* C20 (amended): when av_read_frame fails with an I/O error, read_thread
\* leaves its loop; it posts the quit event if autoexit is set, and otherwise
\* ends with ret = 0 and no quit event, without reading again.  After a
\* failure without an I/O error it waits and goes round the loop.
C20_IoErrorEndsThread ==
    /\ [][ReadIoError =>
             /\ is'.pc = "end"
             /\ (is'.quit_event <=> is.autoexit # 0)
             /\ (is.autoexit = 0 => is'.ret = 0)]_vars
    /\ [][(ReaderRead /\ is'.ret < 0 /\ is'.pb_error = 0) => is'.pc = "top"]_vars

C20_Witness ==
    /\ is.pc = "end" /\ is.pb_error # 0
    /\ is.autoexit = 0 /\ ~is.quit_event /\ is.ret = 0
    /\ is.eof = 1 /\ is.videoq.nb_packets > 0

(***************************************************************************)
(* Properties of the stream component                                      *)
(***************************************************************************)
\* the slots a frame queue counts in size, oldest first: the frame kept as
\* last shown, if any, and the frames still to read
QueuedFrames(f) == [i \in 1..f.size |-> f.queue[(f.rindex + i - 1) % f.max_size]]

\* ids of the frames still to read, in reading order
ReadableIds(f) ==
    [i \in 1..(f.size - f.rindex_shown) |->
        f.queue[(f.rindex + f.rindex_shown + i - 1) % f.max_size].id]

\* C2 as stated: whatever video_display shows, the newly shown frame or the
\* last shown frame again, and whatever the audio callback plays, has the
\* serial its packet queue has at that moment.
C2_NeverPresentStale ==
    [][/\ (VRDisplay /\ VideoDisplays) =>
              fq.queue[frame_queue_peek_last(fq)].serial = q.serial
       /\ AudioPlay => fq.queue[frame_queue_peek(fq)].serial = q.serial]_vars

\* C2 amended: the frame video_refresh makes the newly shown frame, and the
\* frame audio_decode_frame returns for playing, has the serial the packet
\* queue had when the function compared the two.
C2_TakenFrameCurrent ==
    [][/\ VRTake => fq'.queue[frame_queue_peek_last(fq')].serial = hist.cmp_serial
       /\ AudioPlay => fq'.queue[frame_queue_peek_last(fq')].serial = q.serial]_vars

\* after a seek the presenter has passed over a frame of the old serial and
\* made a frame of the new serial the shown frame
C2_Witness ==
    /\ ctype = "video"
    /\ hist.seeks = 1
    /\ pres.pc = "display" /\ pres.force_refresh = 1
    /\ Len(hist.taken) >= 2
    /\ fq.rindex_shown = 1
    /\ fq.queue[frame_queue_peek_last(fq)].serial = q.serial
    /\ q.serial = 2

\* C3: every frame in a frame queue carries the serial of the packet the
\* codec made it from.
C3_FrameSerialIsPacketSerial ==
    \A i \in 1..fq.size :
        /\ QueuedFrames(fq)[i].id # 0
        /\ QueuedFrames(fq)[i].serial = QueuedFrames(fq)[i].origin

\* a frame was pushed after a seek had flushed the packet queue behind the
\* packet it came from, and it is in the frame queue with the old serial
C3_Witness ==
    /\ hist.late
    /\ hist.seeks = 1
    /\ \E i \in 1..fq.size : QueuedFrames(fq)[i].serial < q.serial
    /\ \E i \in 1..fq.size : QueuedFrames(fq)[i].serial = q.serial

\* C13: when the decoder pops a packet whose serial is not that of the packet
\* before, the codec is flushed, finished is cleared and next_pts is set to
\* start_pts before the packet goes on; the codec never holds input of a
\* serial other than the serial of the packet popped last.
C13_FlushOnSerialChange ==
    /\ [](\A i \in 1..Len(d.codec) : d.codec[i].origin = d.pkt_serial)
    /\ [][(DecodeGetPacket /\ d.packet_pending = 0 /\ d'.pkt_serial # d.pkt_serial) =>
             /\ d'.codec = << >>
             /\ d'.finished = 0
             /\ d'.next_pts = d'.start_pts
             /\ d'.pc = "chk"]_vars

\* after the end of the input was decoded and a seek was served, a packet of
\* the new serial is in the codec and finished was cleared
C13_Witness ==
    /\ hist.cleared
    /\ hist.seeks = 1
    /\ d.pkt_serial = 2
    /\ d.finished = 0
    /\ Len(d.codec) = 1

\* C8: in every state of the running component 0 <= size - rindex_shown <=
\* max_size, 0 <= size <= max_size and rindex_shown is 0 or 1.
C8_FrameQueueBounds ==
    /\ 0 <= fq.size - fq.rindex_shown
    /\ fq.size - fq.rindex_shown <= fq.max_size
    /\ 0 <= fq.size
    /\ fq.size <= fq.max_size
    /\ fq.rindex_shown \in {0, 1}

\* the queue is full with a frame kept as last shown, after a seek and after
\* the component was closed and opened again, and the decoder waits to push
C8_Witness ==
    /\ fq.size = fq.max_size
    /\ fq.rindex_shown = 1
    /\ hist.seeks = 1
    /\ hist.reopens = 1 /\ ui = "open"
    /\ d.pc = "write"

\* C9: in a keep_last queue with rindex_shown = 1 the slot at rindex holds
\* the frame the consumer advanced to last, unreleased, and
\* frame_queue_peek_writable does not hand out that slot.
C9_KeepLast ==
    (fq.keep_last = 1 /\ fq.rindex_shown = 1) =>
        /\ Len(hist.taken) > 0
        /\ fq.queue[frame_queue_peek_last(fq)].id = hist.taken[Len(hist.taken)]
        /\ fq.queue[frame_queue_peek_last(fq)].id # 0
        /\ LET r == frame_queue_peek_writable(fq, q)
           IN (~r.wait /\ r.vp >= 0) => r.vp # fq.rindex

\* the ring of a keep_last queue has wrapped: the third frame was pushed into
\* the slot the first was released from, while the second is kept as shown
C9_Witness ==
    /\ fq.keep_last = 1 /\ fq.rindex_shown = 1
    /\ Len(hist.pushed) = 3 /\ Len(hist.taken) = 2
    /\ fq.size = fq.max_size
    /\ fq.rindex = 1 /\ fq.windex = 1

\* C10: the frames the consumer advances to are the frames pushed, in push
\* order, none left out and none twice, and the frames still to read are the
\* pushed frames not yet advanced to, intact.
C10_FrameFifo ==
    /\ Len(hist.taken) <= Len(hist.pushed)
    /\ hist.taken = SubSeq(hist.pushed, 1, Len(hist.taken))
    /\ ReadableIds(fq) = SubSeq(hist.pushed, Len(hist.taken) + 1, Len(hist.pushed))
    /\ \A i \in 1..Len(hist.pushed) : hist.pushed[i] # 0

\* three frames were pushed and advanced to, through a seek, and the ring of
\* the queue has wrapped
C10_Witness ==
    /\ Len(hist.taken) = 3
    /\ hist.seeks = 1
    /\ fq.windex = 1

(***************************************************************************)
(* Properties of the audio callback                                        *)
(***************************************************************************)
\* sdl_audio_callback has returned
CallbackReturned == is.pc = "idle" /\ hist.callbacks > 0

\* C21, as stated: every call of the audio callback returns, having written
\* exactly the len bytes it was asked for.
C21_CallbackReturns ==
    /\ [](CallbackReturned => is.written = is.asked)
    /\ (is.pc # "idle") ~> CallbackReturned

\* C21, amended: a call of the audio callback that returns has written
\* exactly the len bytes it was asked for, and at no time more; a call
\* returns unless it waits in frame_queue_peek_readable for a frame of the
\* empty sample queue, the player not paused and the queue not aborted.
C21_CallbackReturnsOrWaits ==
    /\ [](CallbackReturned => is.written = is.asked)
    /\ [](is.written + is.len = is.asked /\ is.len >= 0)
    /\ (is.pc # "idle") ~> (CallbackReturned \/ CbWaits)

\* a call asked for the longest len has returned after it played bytes of
\* a frame and began a block of silence
C21_Witness ==
    /\ CallbackReturned
    /\ is.asked = MaxAudioLen
    /\ is.written = MaxAudioLen
    /\ hist.decoded > 0
    /\ hist.silences > 0

\* the call is left by the step
CallbackReturnStep == is.pc = "loop" /\ is'.pc = "idle"

\* the call wrote zeros alone
SilenceOnly == hist.silences > 0 /\ ~hist.data

\* C22, as stated: a silence fill leaves audio_clock and audio_clock_serial
\* as they are, and a call that played silence alone does not raise the pts
\* stored in audclk.
C22_SilenceNeverRaisesPts ==
    [][/\ hist'.silences = hist.silences + 1
          => /\ is'.audio_clock = is.audio_clock
             /\ is'.audio_clock_serial = is.audio_clock_serial
       /\ CallbackReturnStep /\ SilenceOnly /\ ~isnan(is.audclk.pts)
          => is'.audclk.pts <= is.audclk.pts]_vars

\* C22, amended: a silence fill leaves audio_clock and audio_clock_serial
\* as they are; at the end of a call that played silence alone the pts
\* stored in audclk is set again from the unchanged audio_clock and the
\* bytes of the silence block not yet written, and differs from the value
\* it had, up or down, by less than one silence block.
C22_SilenceMovesPtsLessThanBlock ==
    [][/\ hist'.silences = hist.silences + 1
          => /\ is'.audio_clock = is.audio_clock
             /\ is'.audio_clock_serial = is.audio_clock_serial
             /\ is'.audclk = is.audclk
       /\ CallbackReturnStep /\ SilenceOnly /\ ~isnan(is.audclk.pts)
             /\ ~isnan(is.audio_clock)
          => /\ is'.audclk.pts = is.audio_clock - (2 * is.audio_hw_buf_size
                                      + is'.audio_buf_size - is'.audio_buf_index)
             /\ fabs(is'.audclk.pts - is.audclk.pts) < SilenceSize(is.frame_size)]_vars

\* a call that played silence alone has returned and has raised the pts of
\* audclk over the pts the call before it stored
C22_Witness ==
    /\ CallbackReturned
    /\ SilenceOnly
    /\ hist.callbacks = 2
    /\ ~isnan(is.audclk.pts)
    /\ is.audclk.pts > is.audio_clock - (2 * is.audio_hw_buf_size + SilenceSize(is.frame_size))
    /\ is.audio_write_buf_size > 0
    /\ is.paused # 0

(***************************************************************************)
(* Properties of the clocks                                                *)
(***************************************************************************)
\* the master clock C23 states
MasterAsStated(st) ==
    IF st.av_sync_type = AV_SYNC_VIDEO_MASTER /\ st.video_st # 0
    THEN AV_SYNC_VIDEO_MASTER
    ELSE IF st.av_sync_type = AV_SYNC_AUDIO_MASTER /\ st.audio_st # 0
         THEN AV_SYNC_AUDIO_MASTER
         ELSE AV_SYNC_EXTERNAL_CLOCK

\* the master clock of C23 amended
MasterAmended(st) ==
    IF st.av_sync_type = AV_SYNC_VIDEO_MASTER /\ st.video_st # 0
    THEN AV_SYNC_VIDEO_MASTER
    ELSE IF \/ st.av_sync_type = AV_SYNC_AUDIO_MASTER /\ st.audio_st # 0
            \/ st.av_sync_type = AV_SYNC_VIDEO_MASTER /\ st.video_st = 0
         THEN AV_SYNC_AUDIO_MASTER
         ELSE AV_SYNC_EXTERNAL_CLOCK

\* C23, as stated: for every sync mode and every set of streams the master
\* clock is video if the mode is video and there is a video stream, audio if
\* the mode is audio and there is an audio stream, external otherwise.
C23_ExternalInEveryOtherCase ==
    /\ get_master_sync_type(is) = MasterAsStated(is)
    /\ hist.master # -1 => hist.master = MasterAsStated(is)

\* C23, amended: the master clock is video if the mode is video and there is
\* a video stream; audio if the mode is audio and there is an audio stream,
\* or the mode is video and there is no video stream; external otherwise.
C23_VideoModeFallsBackToAudio ==
    /\ get_master_sync_type(is) = MasterAmended(is)
    /\ hist.master # -1 => hist.master = MasterAmended(is)

\* video_refresh asked for the master clock in video mode without a video
\* stream, and got the audio clock
C23_Witness ==
    /\ is.av_sync_type = AV_SYNC_VIDEO_MASTER
    /\ is.video_st = 0
    /\ hist.master = AV_SYNC_AUDIO_MASTER

\* what a reader of the clock gets, were the clock paused or not
ReadsNaN(c, queue_serial) ==
    \A p \in {0, 1} : isnan(get_clock([c EXCEPT !.paused = p], queue_serial, is.now))

\* C24: a clock whose serial differs from the serial of its packet queue
\* reads NaN, paused or running; after a flush of their queues the audio and
\* the video clock read NaN, and a clock that read NaN and no longer does
\* was written and has the serial of its queue.
C24_StaleClockReadsNaN ==
    /\ [](/\ is.audclk.serial # is.audioq_serial => ReadsNaN(is.audclk, is.audioq_serial)
          /\ is.vidclk.serial # is.videoq_serial => ReadsNaN(is.vidclk, is.videoq_serial))
    /\ [][/\ is'.audioq_serial # is.audioq_serial
             => isnan(get_clock(is'.audclk, is'.audioq_serial, is'.now))
          /\ is'.videoq_serial # is.videoq_serial
             => isnan(get_clock(is'.vidclk, is'.videoq_serial, is'.now))
          /\ /\ isnan(get_clock(is.audclk, is.audioq_serial, is.now))
             /\ ~isnan(get_clock(is'.audclk, is'.audioq_serial, is'.now))
             => "audclk" \in hist'.wrote /\ is'.audclk.serial = is'.audioq_serial
          /\ /\ isnan(get_clock(is.vidclk, is.videoq_serial, is.now))
             /\ ~isnan(get_clock(is'.vidclk, is'.videoq_serial, is'.now))
             => "vidclk" \in hist'.wrote /\ is'.vidclk.serial = is'.videoq_serial]_vars

\* after a seek the paused audio clock holds a pts and an old serial
C24_Witness ==
    /\ hist.seeks = 1
    /\ is.audclk.paused # 0
    /\ ~isnan(is.audclk.pts)
    /\ is.audclk.serial = is.audioq_serial - 1

\* C25: from speed 1.0 on, whatever the fill levels of the queues at the
\* refresh ticks, the speed of the external clock stays within
\* [0.900, 1.010].
C25_SpeedInRange ==
    /\ is.extclk.speed >= EXTERNAL_CLOCK_SPEED_MIN
    /\ is.extclk.speed <= EXTERNAL_CLOCK_SPEED_MAX

\* the external clock is the master and its speed has come down to 0.900
C25_Witness ==
    /\ hist.master = AV_SYNC_EXTERNAL_CLOCK
    /\ is.extclk.speed = EXTERNAL_CLOCK_SPEED_MIN

\* C26, as stated: the audio clock is written by the audio callback alone,
\* the video clock by the presenter (UI) task alone, the external clock by
\* the reader and by the presenter alone.
C26_OneWriterEach ==
    /\ "audclk" \in hist.wrote => hist.task = "audio"
    /\ "vidclk" \in hist.wrote => hist.task = "presenter"
    /\ "extclk" \in hist.wrote => hist.task \in {"reader", "presenter"}

\* C26, amended: the audio clock is written by the audio callback, but for
\* its paused flag, which stream_toggle_pause writes on the presenter (UI)
\* task and on the reader; the video clock is written by the presenter and,
\* in stream_toggle_pause, by the reader; the external clock is written by
\* the reader, the presenter and the audio callback; no other task writes a
\* clock.
C26_WritersOfClocks ==
    [][/\ is'.audclk # is.audclk
          => \/ hist'.task = "audio"
             \/ /\ hist'.task \in {"presenter", "reader"}
                /\ [is'.audclk EXCEPT !.paused = is.audclk.paused] = is.audclk
       /\ is'.vidclk # is.vidclk => hist'.task \in {"presenter", "reader"}
       /\ is'.extclk # is.extclk => hist'.task \in {"presenter", "reader", "audio"}]_vars

\* the audio callback has just set the external clock along with the audio
\* clock
C26_Witness ==
    /\ hist.task = "audio"
    /\ hist.wrote = {"audclk", "extclk"}

\* the framedrop option as C28 states it
FrameDropAsStated(st) ==
    CASE st.framedrop = -1 -> FALSE
      [] st.framedrop = 0  -> get_master_sync_type(st) # AV_SYNC_VIDEO_MASTER
      [] st.framedrop = 1  -> TRUE

\* the framedrop option of C28 amended
FrameDropAmended(st) ==
    CASE st.framedrop = 0  -> FALSE
      [] st.framedrop = -1 -> get_master_sync_type(st) # AV_SYNC_VIDEO_MASTER
      [] st.framedrop = 1  -> TRUE

\* C28, as stated: for the early and for the late drop, framedrop -1 is no
\* dropping, 0 is dropping when video is not the master clock, 1 is dropping
\* always.
C28_MinusOneDisables ==
    /\ hist.early # -1 => (hist.early = 1) = FrameDropAsStated(is)
    /\ hist.late # -1 => (hist.late = 1) = FrameDropAsStated(is)

\* C28, amended: for the early and for the late drop, framedrop 0 is no
\* dropping, -1 is dropping when video is not the master clock, 1 is
\* dropping always.
C28_ZeroDisables ==
    /\ hist.early # -1 => (hist.early = 1) = FrameDropAmended(is)
    /\ hist.late # -1 => (hist.late = 1) = FrameDropAmended(is)

\* with framedrop -1 and another master than video, get_video_frame and
\* video_refresh both went on to their drop tests
C28_Witness ==
    /\ is.framedrop = -1
    /\ hist.early = 1
    /\ hist.late = 1

(***************************************************************************)
(* Properties of the decoder driver                                        *)
(***************************************************************************)
\* C29: a packet the decoder driver has in hand, popped or pending, whose
\* serial differs from the queue's serial when the driver tests it, is
\* dropped and the codec is not given it; what the codec is given has the
\* queue's serial of that moment.
C29_StalePacketDiscarded ==
    [][/\ DecodeSendPacket /\ q.serial # d.pkt_serial
          => /\ d'.codec = d.codec
             /\ d'.pkt = NoFrame
             /\ d'.packet_pending = 0
             /\ d'.pc = "feed"
             /\ fq' = fq
       /\ Len(d'.codec) > Len(d.codec)
          => /\ d'.codec = Append(d.codec, d.pkt)
             /\ d.pkt.origin = q.serial
             /\ d.pkt_serial = q.serial]_vars

\* a packet pending from before the seek was found stale and dropped
C29_Witness ==
    /\ hist.seeks = 1
    /\ hist.stale_pending
    /\ d.pc = "feed"
    /\ d.pkt = NoFrame
    /\ d.packet_pending = 0
    /\ d.codec = << >>


\* the data packets of serial s that are still to be decoded: those waiting in
\* the packet queue and those the codec holds
UndecodedInQueue(s) ==
    {i \in 1..q.nb_packets : /\ FifoContents(q.pkt_list)[i].serial = s
                             /\ FifoContents(q.pkt_list)[i].pkt.id # 0}

UndecodedInCodec(s) ==
    {i \in 1..Len(d.codec) : d.codec[i].origin = s /\ d.codec[i].id # 0}

\* a step that sets finished: the codec (or, for subtitles, the decode of the
\* null packet) reported AVERROR_EOF while the queue's serial was pkt_serial
FinishedSetAtEndOfStream ==
    (d'.finished # d.finished /\ d'.finished # 0) =>
        /\ DecodeReceive \/ SubtitleReceive
        /\ d'.finished = d.pkt_serial
        /\ q.serial = d.pkt_serial
        /\ IF ctype = "subtitle"
           THEN d.ret = AVERROR_EOF
           ELSE \E out \in avcodec_receive_frame(d.codec) : out.ret = AVERROR_EOF

\* a step that pops a packet of another serial clears finished
FinishedResetOnNewSerial ==
    (DecodeGetPacket /\ d.packet_pending = 0 /\ d'.pkt_serial # d.pkt_serial) =>
        d'.finished = 0

\* C30: finished equals a serial s only if the codec reported end of stream
\* while the decoder was processing packets of serial s; it is reset to 0 when
\* a packet of a different serial is popped; and it never equals the queue's
\* current serial while packets of that serial are still undecoded in the
\* queue or the codec.
C30_FinishedMarker ==
    [][/\ FinishedSetAtEndOfStream
       /\ FinishedResetOnNewSerial
       /\ (d'.alive /\ d'.finished = q'.serial) =>
             /\ {i \in 1..q'.nb_packets :
                   /\ FifoContents(q'.pkt_list)[i].serial = q'.serial
                   /\ FifoContents(q'.pkt_list)[i].pkt.id # 0} = {}
             /\ {i \in 1..Len(d'.codec) :
                   d'.codec[i].origin = q'.serial /\ d'.codec[i].id # 0} = {}]_vars

\* C30, the two parts about the steps that write finished: they hold
C30_FinishedWrittenAsStated ==
    [][FinishedSetAtEndOfStream /\ FinishedResetOnNewSerial]_vars

\* C30, the state reached: finished is the queue's serial and a data packet of
\* that serial, put after the null packet that ended the stream, waits in the
\* queue
C30_FinishedWithPacketQueued ==
    /\ d.alive /\ d.finished = q.serial /\ d.codec = << >>
    /\ UndecodedInQueue(q.serial) # {}
    /\ hist.seeks = 0


(***************************************************************************)
(* Properties of the queue mutexes                                         *)
(***************************************************************************)
\* a thread that is kept waiting for a queue mutex
LockBlocked(t) ==
    /\ is.thr[t].pc \in {"lock", "wait"}
    /\ is.owner[IF is.thr[t].pc = "wait" THEN Head(is.thr[t].todo).m
                ELSE Head(LockNeeded(is.thr[t]))] # "none"

\* C27: no thread holds the mutexes of two queues at the same time; a queue
\* mutex is taken only by a thread that holds no other queue mutex; and the
\* owner of a queue mutex is never itself waiting for a queue mutex, so no
\* chain of threads waiting for each other's queue mutexes can form.
C27_OneQueueMutexAtATime ==
    /\ [](\A t \in LockThreads :
             /\ Cardinality(is.thr[t].held) <= 1
             /\ is.thr[t].held = {m \in QueueMutexes : is.owner[m] = t}
             /\ is.thr[t].held # {} => is.thr[t].pc = "held")
    /\ [][\A t \in LockThreads :
             is'.thr[t].held \ is.thr[t].held # {} => is.thr[t].held = {}]_vars

\* three threads hold the mutexes of three different queues while a fourth
\* is kept waiting for one of them
C27_Witness ==
    /\ is.owner["videoq"] = "event_loop"
    /\ is.owner["sampq"] = "sdl_audio_callback"
    /\ is.owner["subpq"] = "subtitle_thread"
    /\ LockBlocked("video_thread")
    /\ Head(is.thr["video_thread"].todo).fn = "packet_queue_get"


(***************************************************************************)
(* Properties of the end of playback                                       *)
(***************************************************************************)
\* a step of read_thread that treats playback as complete: it seeks to the
\* start, or exits, or counts the input as played to its end
TreatedAsComplete ==
    /\ ReaderLoop
    /\ \/ hist'.completions > hist.completions
       \/ hist'.loop_seeks > hist.loop_seeks
       \/ is'.quit_event /\ ~is.quit_event
       \/ is'.loop # is.loop

\* an open stream's decoder has finished at its queue's serial and its frame
\* queue has no frame left
StreamDone(idx, dec, queue, nb) ==
    idx >= 0 => (dec.finished = queue.serial /\ nb = 0)

\* C31 as stated: playback is treated as complete only when the player is not
\* paused, the decoder of every open stream (audio, video and subtitle) has
\* finished at its queue's serial, and every frame queue is empty.
C31_CompleteOnlyWhenAllDone ==
    [][TreatedAsComplete =>
          /\ is.paused = 0
          /\ StreamDone(is.audio_stream, is.auddec, is.audioq, is.sampq_nb)
          /\ StreamDone(is.video_stream, is.viddec, is.videoq, is.pictq_nb)
          /\ StreamDone(is.subtitle_stream, is.subdec, is.subtitleq, is.subpq_nb)]_vars

\* C31 as amended: playback is treated as complete only when the player is
\* not paused and the decoders of the open audio and video streams have
\* finished at their queues' serials with the sample queue and the picture
\* queue empty; the subtitle stream is not looked at.
C31_CompleteOnlyWhenAudioVideoDone ==
    [][TreatedAsComplete =>
          /\ is.paused = 0
          /\ StreamDone(is.audio_stream, is.auddec, is.audioq, is.sampq_nb)
          /\ StreamDone(is.video_stream, is.viddec, is.videoq, is.pictq_nb)]_vars

\* playback was treated as complete with the subtitle stream open and its
\* null packet still in the subtitle queue
C31_Witness ==
    /\ hist.completions = 1
    /\ is.subtitle_stream >= 0 /\ is.video_stream >= 0
    /\ is.viddec.finished = is.videoq.serial
    /\ is.subdec.finished # is.subtitleq.serial
    /\ is.subtitleq.nb_packets > 0
    /\ is.quit_event


(***************************************************************************)
(* Properties of compute_target_delay                                      *)
(***************************************************************************)
\* C33 as stated: with video not the master, the delay is changed only if the
\* difference between the video clock and the master clock is defined and
\* smaller in magnitude than AV_NOSYNC_THRESHOLD (10 s); for a difference of
\* 10 s or more the delay comes back unchanged.
C33_NoCorrectionFromTenSeconds ==
    (hist.called /\ get_master_sync_type(is) # AV_SYNC_VIDEO_MASTER) =>
        /\ hist.returned # hist.delay =>
              /\ ~isnan(clock_diff(is))
              /\ fabs(clock_diff(is)) < AV_NOSYNC_THRESHOLD * is.bytes_per_sec
        /\ (~isnan(clock_diff(is))
            /\ fabs(clock_diff(is)) >= AV_NOSYNC_THRESHOLD * is.bytes_per_sec) =>
              hist.returned = hist.delay

\* C33 as amended: the limit is is->max_frame_duration, which is 10 s for an
\* input whose format has timestamp discontinuities and 3600 s for any other.
C33_NoCorrectionFromMaxFrameDuration ==
    (hist.called /\ get_master_sync_type(is) # AV_SYNC_VIDEO_MASTER) =>
        /\ hist.returned # hist.delay =>
              /\ ~isnan(clock_diff(is))
              /\ fabs(clock_diff(is)) < is.max_frame_duration
        /\ (~isnan(clock_diff(is)) /\ fabs(clock_diff(is)) >= is.max_frame_duration) =>
              hist.returned = hist.delay
        /\ is.max_frame_duration \in {10 * is.bytes_per_sec, 3600 * is.bytes_per_sec}

\* a difference of exactly 10 s is corrected when the limit is 3600 s
C33_Witness ==
    /\ hist.called
    /\ get_master_sync_type(is) = AV_SYNC_AUDIO_MASTER
    /\ clock_diff(is) = AV_NOSYNC_THRESHOLD * is.bytes_per_sec
    /\ is.max_frame_duration = 3600 * is.bytes_per_sec
    /\ hist.delay = AV_SYNC_THRESHOLD_MIN
    /\ hist.returned = 2 * hist.delay


(***************************************************************************)
(* Properties of the external clock's speed                                *)
(***************************************************************************)
\* the speed went from old to want, up to the rounding of the sum
SpeedMovedTo(new, want) == fabs(new - want) <= RoundErr

\* what a tick does to the speed of the external clock when every open
\* stream's queue has to hold at least full packets for the speed to be raised
SpeedRuleWith(full) ==
    LET old    == is.extclk.speed
        new    == is'.extclk.speed
        nb(st, n) == IF st # 0 THEN {n} ELSE {}
        levels == nb(is.audio_st, hist'.fill[1]) \cup nb(is.video_st, hist'.fill[2])
    IN IF \E n \in levels : n <= EXTERNAL_CLOCK_MIN_FRAMES
       THEN /\ new >= EXTERNAL_CLOCK_SPEED_MIN
            /\ new = EXTERNAL_CLOCK_SPEED_MIN
               \/ SpeedMovedTo(new, old - EXTERNAL_CLOCK_SPEED_STEP)
       ELSE IF \A n \in levels : n >= full
       THEN /\ new <= EXTERNAL_CLOCK_SPEED_MAX
            /\ new = EXTERNAL_CLOCK_SPEED_MAX
               \/ SpeedMovedTo(new, old + EXTERNAL_CLOCK_SPEED_STEP)
       ELSE IF old = SpeedOne THEN new = SpeedOne
       ELSE IF old < SpeedOne THEN SpeedMovedTo(new, old + EXTERNAL_CLOCK_SPEED_STEP)
       ELSE SpeedMovedTo(new, old - EXTERNAL_CLOCK_SPEED_STEP)

\* a refresh tick under the external master with a realtime input, not paused
SpeedTickExternal ==
    /\ <<is, hist>>' # <<is, hist>>
    /\ is.paused = 0 /\ is.realtime # 0
    /\ get_master_sync_type(is) = AV_SYNC_EXTERNAL_CLOCK

\* C34 as stated: on such a tick, if an open stream's queue holds 2 packets or
\* fewer the speed is lowered by 0.001 (not below 0.900); otherwise, if every
\* open stream's queue holds 10 packets or more, it is raised by 0.001 (not
\* above 1.010); otherwise it moves by 0.001 toward 1.0 and stays at 1.0.
C34_RaisedFromTenPackets ==
    [][SpeedTickExternal => SpeedRuleWith(EXTERNAL_CLOCK_MAX_FRAMES)]_vars

\* C34 as amended: the speed is raised if every open stream's queue holds
\* more than 10 packets.
C34_RaisedAboveTenPackets ==
    [][SpeedTickExternal => SpeedRuleWith(EXTERNAL_CLOCK_MAX_FRAMES + 1)]_vars

\* a tick under the external master with 10 packets in both queues has left
\* the speed less than a step above 1.0
C34_Witness ==
    /\ hist.master = AV_SYNC_EXTERNAL_CLOCK
    /\ hist.fill = <<EXTERNAL_CLOCK_MAX_FRAMES, EXTERNAL_CLOCK_MAX_FRAMES>>
    /\ is.audio_st # 0 /\ is.video_st # 0
    /\ is.extclk.speed > SpeedOne
    /\ is.extclk.speed < SpeedOne + EXTERNAL_CLOCK_SPEED_STEP - RoundErr


(***************************************************************************)
(* Properties of decoder_abort                                             *)
(***************************************************************************)
\* C32: once decoder_abort is called, the decoder thread terminates in the
\* end (and SDL_WaitThread returns), wherever it was: waiting in
\* packet_queue_get, waiting in frame_queue_peek_writable for a slot of the
\* full frame queue, or between the two.
C32_AbortedDecoderTerminates == (ui # "open") ~> (~d.alive)

\* the decoder thread was waiting for a slot of the full frame queue when
\* decoder_abort was called, and it has terminated and been joined
C32_Witness ==
    /\ hist.at_abort = "pwwait"
    /\ fq.size = fq.max_size
    /\ ~d.alive
    /\ ui = "closed"

(***************************************************************************)
(* Properties of the frame queue's indices                                 *)
(***************************************************************************)
\* the slots that hold a frame: the one kept as last shown, if any, and the
\* readable ones
OccupiedSlots(f) == {(f.rindex + i) % f.max_size : i \in 0..(f.size - 1)}

\* C35: whenever neither frame_queue_push nor frame_queue_next is under
\* way, windex = (rindex + size) mod max_size, and the slot that
\* frame_queue_peek_writable hands out is none of the slots that hold a
\* readable frame or the frame kept as last shown.
C35_WritableSlotIsFree ==
    /\ fq.size \in 0..fq.max_size
    /\ fq.windex = (fq.rindex + fq.size) % fq.max_size
    /\ LET r == frame_queue_peek_writable(fq, q)
       IN r.vp >= 0 => r.vp \notin OccupiedSlots(fq)

\* the ring has wrapped: the frame kept as last shown is in the last slot
\* and the next frame goes to slot 0, which is handed out
C35_Witness ==
    /\ fq.keep_last = 1 /\ fq.rindex_shown = 1
    /\ fq.rindex = fq.max_size - 1
    /\ fq.size = 1
    /\ fq.windex = 0
    /\ frame_queue_peek_writable(fq, q).vp = 0
    /\ Len(hist.pushed) >= fq.max_size

(***************************************************************************)
(* Properties of rindex_shown                                              *)
(***************************************************************************)
\* C36: in a frame queue with keep_last, the first frame_queue_next sets
\* rindex_shown to 1 and removes no frame; rindex_shown then stays 1, over
\* seeks, pauses and the closing and reopening of the stream component,
\* which leave the frame queue (indices, size, frames) as it is.
C36_RindexShownStays ==
    [][fq.keep_last = 1 =>
          /\ fq.rindex_shown = 1 => fq'.rindex_shown = 1
          /\ fq.rindex_shown = 0 => fq'.rindex = fq.rindex /\ fq'.size >= fq.size
          /\ ui' # ui => fq' = fq]_vars

\* the component was closed and opened again after a seek, and its frame
\* queue still has the frame kept as last shown and a frame to show
C36_Witness ==
    /\ fq.keep_last = 1 /\ fq.rindex_shown = 1
    /\ hist.reopens > 0 /\ ui = "open"
    /\ hist.seeks > 0
    /\ fq.size = 2
    /\ d.alive

(***************************************************************************)
(* Properties of seek requests                                             *)
(***************************************************************************)
\* a step in which the user asked for a seek
SeekAsked == hist'.user_seeks = hist.user_seeks + 1

\* the queues of the open streams
OpenQueues(vs) ==
    (IF vs.audio_stream >= 0 THEN {vs.audioq} ELSE {}) \cup
    (IF vs.video_stream >= 0 THEN {vs.videoq} ELSE {}) \cup
    (IF vs.subtitle_stream >= 0 THEN {vs.subtitleq} ELSE {})

\* C37: a seek asked for while seek_req is set is dropped: seek_pos,
\* seek_rel and seek_flags (and all else) stay as the earlier request left
\* them, and the two requests end in one call of avformat_seek_file and at
\* most one flush of each queue.
C37_SeekWhilePendingDropped ==
    /\ [](/\ hist.served + is.seek_req
                = hist.user_seeks - hist.dropped + hist.loop_seeks
          /\ \A pq \in OpenQueues(is) : pq.serial - 1 <= hist.served)
    /\ [][(SeekAsked /\ is.seek_req = 1) => is' = is]_vars

\* two seeks were asked for, the second one, with another target, while the
\* first was pending; the first has been served and the queues were flushed
\* once
C37_Witness ==
    /\ hist.user_seeks = 2 /\ hist.dropped = 1
    /\ is.seek_req = 0 /\ hist.served = 1
    /\ is.seek_pos # hist.asked.pos
    /\ is.audioq.serial = 2 /\ is.videoq.serial = 2


(***************************************************************************)
(* Properties of a seek that fails                                         *)
(***************************************************************************)
\* a step in which read_thread served a seek request and avformat_seek_file
\* failed
SeekFailed == hist'.served = hist.served + 1 /\ is'.ret < 0

FifoWrapped(f) == f.offset_w <= f.offset_r /\ f.is_empty = 0

\* C39: after an av_fifo_grow2 that succeeded, whatever the ring was
\* (empty, partly filled, full, wrapped or not) and whatever the increment,
\* the elements readable are those readable before, in the same order,
\* av_fifo_can_read is what it was and av_fifo_can_write is larger by the
\* increment.
C39_GrowPreservesContents ==
    (hist.op = "grow" /\ hist.ret = 0) =>
        /\ FifoContents(q) = FifoContents(hist.before)
        /\ av_fifo_can_read(q) = av_fifo_can_read(hist.before)
        /\ av_fifo_can_write(q) = av_fifo_can_write(hist.before) + hist.arg
        /\ q.nb_elems = hist.before.nb_elems + hist.arg

\* a wrapped, partly filled ring has grown by less than its write offset, so
\* that part of its head went to the new space and the rest moved down
C39_Witness ==
    /\ hist.op = "grow" /\ hist.ret = 0
    /\ FifoWrapped(hist.before)
    /\ av_fifo_can_write(hist.before) > 0
    /\ hist.arg > 0 /\ hist.arg < hist.before.offset_w
    /\ Len(FifoContents(q)) >= 3

\* C40: an av_fifo_write of more elements than are free returns ENOSPC and
\* leaves the AVFifo as it is if the auto-grow flag is not set or the
\* capacity needed is beyond auto_grow_limit; and no av_fifo_write takes the
\* capacity from below or at auto_grow_limit to beyond it.
C40_WriteRefusedWithoutRoom ==
    hist.op = "write" =>
        LET b == hist.before
            free == av_fifo_can_write(b)
        IN /\ (/\ hist.arg > free
               /\ \/ ~HasFlag(b.flags, AV_FIFO_FLAG_AUTO_GROW)
                  \/ b.nb_elems + (hist.arg - free) > b.auto_grow_limit) =>
                  (hist.ret = AVERROR_ENOSPC /\ q = b)
           /\ q.nb_elems > b.nb_elems => q.nb_elems <= b.auto_grow_limit

\* a write was refused by an auto-grow ring that holds elements and is
\* below its limit, but not by enough
C40_Witness ==
    /\ hist.op = "write" /\ hist.ret = AVERROR_ENOSPC
    /\ HasFlag(q.flags, AV_FIFO_FLAG_AUTO_GROW)
    /\ q.nb_elems < q.auto_grow_limit
    /\ av_fifo_can_read(q) > 0
    /\ q = hist.before

====
